---- MODULE Spec2Model ----
(***************************************************************************)
(* Model of the autocompletion core of trino-cli: the schema introspector  *)
(* (background refresh scheduler), the schema cache (SQLite rows plus the  *)
(* suggestion trie) and the start-up of the autocomplete service.          *)
(*                                                                         *)
(* Names are sequences of one-character strings, so that strings.ToLower   *)
(* and string concatenation are computed, not assumed.                     *)
(***************************************************************************)
EXTENDS Integers, Sequences, FiniteSets, TLC

\* ------------------------------------------------------------------ bounds

\* Client goroutines that call into the introspector concurrently.
NumCallers == 2
\* Goroutine slots for runBackgroundRefresh (a finished loop frees its slot).
MaxLoops == 2
\* Refreshes (RefreshAll, RefreshSchema) started per behaviour, and failures
\* (network, SQLite) injected per behaviour, when the scheduler is checked ...
SchedRefreshes == 2
SchedFaults == 1
\* ... and when the refresh itself is checked.
MaxRefreshes == 2
MaxFaults == 1
\* Changes to the live database (tables and columns added or dropped).
MaxDbChanges == 1
\* The stand-alone trie: the Insert and BoostWord calls made on it, and the
\* largest limit asked of GetSuggestions.
MaxTrieOps == 3
MaxLimit == 2
\* Fuzzy matching: the Insert calls before it, the lengths of the stored words
\* and of the query, and the largest maxDistance.
MaxFuzzyWords == 2
MaxWordLen == 2
MaxQueryLen == 3
MaxDistance == 1

\* ------------------------------------------------------------ name universe

UpperCase ==
  <<"A","B","C","D","E","F","G","H","I","J","K","L","M",
    "N","O","P","Q","R","S","T","U","V","W","X","Y","Z">>
LowerCase ==
  <<"a","b","c","d","e","f","g","h","i","j","k","l","m",
    "n","o","p","q","r","s","t","u","v","w","x","y","z">>

\* The letters' lower-case and upper-case forms.
LowerOf ==
  [ch \in {UpperCase[i] : i \in 1..Len(UpperCase)} |->
     LowerCase[CHOOSE i \in 1..Len(UpperCase) : UpperCase[i] = ch]]
UpperOf ==
  [ch \in {LowerCase[i] : i \in 1..Len(LowerCase)} |->
     UpperCase[CHOOSE i \in 1..Len(LowerCase) : LowerCase[i] = ch]]

\* strings.ToLower, one character
ToLowerCh(ch) == IF ch \in DOMAIN LowerOf THEN LowerOf[ch] ELSE ch

\* strings.ToLower
ToLower(w) == [i \in 1..Len(w) |-> ToLowerCh(w[i])]

\* strings.ToUpper, one character
ToUpperCh(ch) == IF ch \in DOMAIN UpperOf THEN UpperOf[ch] ELSE ch

\* strings.ToUpper
ToUpper(w) == [i \in 1..Len(w) |-> ToUpperCh(w[i])]

Dot == <<".">>

\* The two schemas RefreshAll skips.
InformationSchema ==
  <<"i","n","f","o","r","m","a","t","i","o","n","_","s","c","h","e","m","a">>
SystemSchema == <<"s","y","s","t","e","m">>

\* User schemas of the live database.
Hr == <<"h","r">>
Ops == <<"O","p","s">>
UserSchemas == {Hr, Ops}

Ord == <<"o","r","d">>
Usr == <<"U","s","r">>
TableNames == {Ord, Usr}

Id == <<"i","d">>
Amt == <<"A","m","t">>
ColumnNames == {Id, Amt}

DataTypes == {"bigint", "varchar"}

\* A set as a list, in the arbitrary but fixed order a query without ORDER BY
\* returns its rows.
RECURSIVE SetToSeq(_)
SetToSeq(S) ==
  IF S = {} THEN <<>>
  ELSE LET x == CHOOSE y \in S : TRUE
       IN <<x>> \o SetToSeq(S \ {x})

SeqToSet(q) == {q[i] : i \in 1..Len(q)}

\* -------------------------------------------------------------------- trie

\* A trie node is identified by its path from the root. The trie is
\* represented by its word nodes (IsWord, with Word the path itself): it maps
\* each of them to its Score. Its other nodes are the prefixes of the
\* words, created on the way by Insert and never removed.
NewTrie == [w \in {} |-> 0]

Prefixes(w) == {SubSeq(w, 1, k) : k \in 0..Len(w)}

\* The words of a trie (the nodes with IsWord).
Words(t) == DOMAIN t

\* The nodes of a trie: the root and every node on the path of a word.
Nodes(t) == {<<>>} \cup UNION {Prefixes(w) : w \in Words(t)}

\* An Insert that replaces the score of the word.
InsertOverwrite(t, word, score) ==
  LET w == ToLower(word)
  IN [x \in Words(t) \cup {w} |-> IF x = w THEN score ELSE t[x]]

\* Trie.Insert: lower-cases the word, creates the missing nodes on its path,
\* marks the last one as a word and adds score to its score.
Insert(t, word, score) ==
  LET w == ToLower(word)
  IN [x \in Words(t) \cup {w} |->
        (IF x \in Words(t) THEN t[x] ELSE 0) + (IF x = w THEN score ELSE 0)]

\* Insert a list of <<word, score>> pairs, in order.
RECURSIVE InsertAll(_, _)
InsertAll(t, pairs) ==
  IF pairs = <<>> THEN t
  ELSE InsertAll(Insert(t, Head(pairs)[1], Head(pairs)[2]), Tail(pairs))

\* Trie.findNode: the node at the lower-cased prefix, if there is one.
HasNode(t, prefix) == ToLower(prefix) \in Nodes(t)

\* A BoostWord that creates the word when it is missing.
BoostOrInsert(t, word, boostAmount) ==
  [trie |-> Insert(t, word, boostAmount), ok |-> TRUE]

\* Trie.BoostWord: finds the node of the lower-cased word; when there is none
\* or it is not a word, returns false and changes nothing; else adds
\* boostAmount to the node's score and returns true.
BoostWord(t, word, boostAmount) ==
  IF ToLower(word) \in Words(t)
  THEN [trie |-> [t EXCEPT ![ToLower(word)] = @ + boostAmount], ok |-> TRUE]
  ELSE [trie |-> t, ok |-> FALSE]

\* Word w starts with p.
StartsWith(w, p) == Len(w) >= Len(p) /\ SubSeq(w, 1, Len(p)) = p

\* node.Children: the nodes one character below a node.
Children(t, node) ==
  {n \in Nodes(t) : Len(n) = Len(node) + 1 /\ StartsWith(n, node)}

\* The lists that hold every element of S once: the orders in which a range
\* over a map of these elements can go, which Go leaves unspecified.
Orderings(S) ==
  {q \in [1..Cardinality(S) -> S] :
     \A i, j \in 1..Cardinality(S) : i # j => q[i] # q[j]}

\* GetSuggestions, collect(node): the node's own word if it is one, then what
\* collect gathers from each child, the children in any order. The result is
\* every list collect can build.
RECURSIVE Collected(_, _)
RECURSIVE CollectedEach(_, _)
Collected(t, node) ==
  LET own == IF node \in Words(t) THEN <<node>> ELSE <<>>
      kids == Children(t, node)
  IN IF Cardinality(kids) = 1 /\ own = <<>>
     THEN Collected(t, CHOOSE n \in kids : TRUE)
     ELSE UNION {{own \o rest : rest \in CollectedEach(t, order)} :
                   order \in Orderings(kids)}
CollectedEach(t, order) ==
  IF order = <<>> THEN {<<>>}
  ELSE {a \o b : a \in Collected(t, Head(order)), b \in CollectedEach(t, Tail(order))}

\* A collect that starts from the root whatever the prefix.
CollectAll(t, prefix) == Collected(t, <<>>)

\* GetSuggestions: collect(node) for the prefix's node.
Collect(t, prefix) == Collected(t, ToLower(prefix))

\* Word a stands before word b in list r.
Before(r, a, b) == \E i, j \in 1..Len(r) : i < j /\ r[i] = a /\ r[j] = b

\* An order that any list satisfies.
Unsorted(t, q) == TRUE

\* The order sort.Slice establishes with "Score >": non-increasing scores.
SortedByScore(t, q) == \A i \in 1..(Len(q) - 1) : t[q[i]] >= t[q[i + 1]]

\* GetSuggestions, sort.Slice: the collected list in non-increasing order of
\* score. sort.Slice sorts a slice of fewer than 12 elements by insertion,
\* which keeps words of equal score in the order they were collected in.
RECURSIVE InsertionSort(_, _, _)
InsertionSort(t, sorted, rest) ==
  IF rest = <<>> THEN sorted
  ELSE LET x == Head(rest)
           k == Cardinality({i \in 1..Len(sorted) : t[sorted[i]] >= t[x]})
       IN InsertionSort(t, SubSeq(sorted, 1, k) \o <<x>>
                             \o SubSeq(sorted, k + 1, Len(sorted)),
                        Tail(rest))
SortSlice(t, q) == IF SortedByScore(t, q) THEN q ELSE InsertionSort(t, <<>>, q)

\* GetSuggestions: the first `limit` elements (limit >= 0; make panics on a
\* negative one).
Truncate(q, limit) == SubSeq(q, 1, IF Len(q) < limit THEN Len(q) ELSE limit)

\* Trie.GetSuggestions: every list the call can return. An unmatched prefix
\* gives the empty list.
GetSuggestions(t, prefix, limit) ==
  IF ~HasNode(t, prefix) THEN {<<>>}
  ELSE {Truncate(SortSlice(t, q), limit) : q \in Collect(t, prefix)}

\* GetFuzzyMatches: matches[node.Word] = combinedScore.
Record(M, word, combinedScore) ==
  [x \in DOMAIN M \cup {word} |-> IF x = word THEN combinedScore ELSE M[x]]

\* A search that gives up at the first error.
NoErrorAllowed(g, currentDistance) == currentDistance > 0

\* GetFuzzyMatches, traverse: "if currentDistance > maxDistance { return }".
TooFar(g, currentDistance) == currentDistance > g.maxDistance

\* GetFuzzyMatches, traverse(node, currentPrefix, currentDistance), with
\* g = [t, prefix, maxDistance] the trie and the arguments of the call, i the
\* length of currentPrefix (of which the code uses nothing else; characters
\* are one byte long here) and M the matches map so far. The result is every
\* matches map the call can leave: the children are visited in any order, and
\* a later visit of a word overwrites the score of an earlier one.
RECURSIVE traverse(_, _, _, _, _)
RECURSIVE traverseChildren(_, _, _, _, _)
traverse(g, node, i, d, M) ==
  IF TooFar(g, d) THEN {M}
  ELSE LET M1 == IF node \in Words(g.t) THEN Record(M, node, g.t[node] - d * 10)
                                         ELSE M
           looped == UNION {traverseChildren(g, order, i, d, {M1}) :
                              order \in Orderings(Children(g.t, node))}
       IN \* Case 4: delete (skip a character of the input)
          IF i < Len(g.prefix)
          THEN UNION {traverse(g, node, i + 1, d + 1, m) : m \in looped}
          ELSE looped

\* traverse, "for char, childNode := range node.Children", the children
\* still to visit in this order, from each of the matches maps Ms.
traverseChildren(g, order, i, d, Ms) ==
  IF order = <<>> THEN Ms
  ELSE LET childNode == Head(order)
           char == childNode[Len(childNode)]
           after ==
             IF i < Len(g.prefix) /\ g.prefix[i + 1] = char
             THEN \* Case 1: match
                  UNION {traverse(g, childNode, i + 1, d, m) : m \in Ms}
             ELSE \* Case 2: insert (skip this character of the trie)
                  LET inserted == UNION {traverse(g, childNode, i, d + 1, m) : m \in Ms}
                  IN \* Case 3: substitute
                     IF i < Len(g.prefix)
                     THEN UNION {traverse(g, childNode, i + 1, d + 1, m) : m \in inserted}
                     ELSE inserted
       IN traverseChildren(g, Tail(order), i, d, after)

\* Trie.GetFuzzyMatches: every list the call can return. The matches map is
\* copied to a slice in map order, sorted by combined score and cut at limit
\* (limit >= 0).
GetFuzzyMatches(t, prefix, maxDistance, limit) ==
  LET g == [t |-> t, prefix |-> ToLower(prefix), maxDistance |-> maxDistance]
  IN UNION {{Truncate(SortSlice(matches, result), limit) :
               result \in Orderings(DOMAIN matches)} :
              matches \in traverse(g, <<>>, 0, 0, NewTrie)}

\* ------------------------------------------------- schema cache (SQLite)

\* The four tables initCacheDB creates, each a set of rows.
EmptyDb == [schemas |-> {}, tables |-> {}, columns |-> {}, sql_keywords |-> {}]

\* SchemaCache.GetSchemas: SELECT name FROM schemas
GetSchemas(db) == {r.name : r \in db.schemas}

\* SchemaCache.GetTables: SELECT name FROM tables WHERE schema_name = ?
GetTables(db, schemaName) ==
  {r.name : r \in {x \in db.tables : x.schema_name = schemaName}}

\* SchemaCache.GetColumns: SELECT name, data_type FROM columns WHERE ...
GetColumns(db, schemaName, tableName) ==
  {[Name |-> r.name, DataType |-> r.data_type, Table |-> tableName, Schema |-> schemaName] :
     r \in {x \in db.columns : x.schema_name = schemaName /\ x.table_name = tableName}}

\* The statements StoreSchema executes in its transaction, in order.
ColumnStmts(schemaName, tableName, cols) ==
  [i \in 1..Len(cols) |->
     [kind |-> "column", name |-> cols[i].Name, data_type |-> cols[i].DataType,
      table_name |-> tableName, schema_name |-> schemaName]]

RECURSIVE TableStmts(_, _)
TableStmts(schemaName, tables) ==
  IF tables = <<>> THEN <<>>
  ELSE LET t == Head(tables)
       IN <<[kind |-> "table", name |-> t.Name, data_type |-> "",
             table_name |-> t.Name, schema_name |-> schemaName]>>
          \o ColumnStmts(schemaName, t.Name, t.Columns)
          \o TableStmts(schemaName, Tail(tables))

Stmts(metadata) ==
  <<[kind |-> "schema", name |-> metadata.Name, data_type |-> "",
     table_name |-> <<>>, schema_name |-> metadata.Name]>>
  \o TableStmts(metadata.Name, metadata.Tables)

\* tx.Exec of one INSERT OR REPLACE: the row with the same primary key is
\* replaced. Foreign keys are not enforced (SQLite's default; the cache opens
\* its database without enabling them), so nothing cascades.
Exec(db, st, now) ==
  CASE st.kind = "schema" ->
         [db EXCEPT !.schemas = {r \in @ : r.name # st.name}
                                  \cup {[name |-> st.name, last_update |-> now]}]
    [] st.kind = "table" ->
         [db EXCEPT !.tables = {r \in @ : ~(r.name = st.name /\ r.schema_name = st.schema_name)}
                                 \cup {[name |-> st.name, schema_name |-> st.schema_name]}]
    [] st.kind = "column" ->
         [db EXCEPT !.columns =
            {r \in @ : ~(r.name = st.name /\ r.table_name = st.table_name
                         /\ r.schema_name = st.schema_name)}
            \cup {[name |-> st.name, data_type |-> st.data_type,
                   table_name |-> st.table_name, schema_name |-> st.schema_name]}]

RECURSIVE ExecAll(_, _, _)
ExecAll(db, stmts, now) ==
  IF stmts = <<>> THEN db
  ELSE ExecAll(Exec(db, Head(stmts), now), Tail(stmts), now)

\* The trie insertions that follow one successful tx.Exec in StoreSchema.
TrieInserts(st) ==
  CASE st.kind = "schema" -> <<<<st.name, 100>>>>
    [] st.kind = "table" -> << <<st.name, 90>>, <<st.schema_name \o Dot \o st.name, 95>> >>
    [] st.kind = "column" -> << <<st.name, 80>>, <<st.table_name \o Dot \o st.name, 85>> >>

RECURSIVE TrieInsertsAll(_)
TrieInsertsAll(stmts) ==
  IF stmts = <<>> THEN <<>>
  ELSE TrieInserts(Head(stmts)) \o TrieInsertsAll(Tail(stmts))

\* A rollback that keeps the writes made so far.
TxKeepWrites(db, tx) == tx

\* tx.Rollback(): the database is what it was before Begin.
TxRollback(db, tx) == db

\* tx.Commit() returning an error: the transaction is over and none of its
\* writes is in the database.
TxCommitFailed(db, tx) == db

\* tx.Commit(): the transaction's writes become the database.
TxCommit(db, tx) == tx

\* SchemaCache.StoreSchema. failAt injects the SQLite failure: 0 none,
\* 1 Begin, 1+i the i-th Exec, Len(stmts)+2 Commit. The result is the cache
\* after the call and the error returned.
StoreSchema(db, trie, lastRefresh, metadata, failAt, now) ==
  LET stmts == Stmts(metadata)
      n == Len(stmts)
      done == IF failAt = 0 \/ failAt = n + 2 THEN n ELSE failAt - 2
  IN IF failAt = 1
     THEN [db |-> db, trie |-> trie, lastRefresh |-> lastRefresh, err |-> TRUE]
     ELSE LET ran == SubSeq(stmts, 1, done)
              tx == ExecAll(db, ran, now)
              trie2 == InsertAll(trie, TrieInsertsAll(ran))
          IN IF done < n
             THEN [db |-> TxRollback(db, tx), trie |-> trie2,
                   lastRefresh |-> lastRefresh, err |-> TRUE]
             ELSE IF failAt = n + 2
             THEN [db |-> TxCommitFailed(db, tx), trie |-> trie2,
                   lastRefresh |-> lastRefresh, err |-> TRUE]
             ELSE [db |-> TxCommit(db, tx), trie |-> trie2,
                   lastRefresh |-> now, err |-> FALSE]

\* SchemaCache.loadTrieFromCache. failAt injects the failing query: 0 none,
\* 1 sql_keywords, 2 schemas, 3 tables, 4 columns. What was inserted before
\* the failing query stays in the trie.
LoadTrie(db, trie, lastRefresh, failAt, now) ==
  LET kw == SetToSeq(db.sql_keywords)
      sc == SetToSeq(db.schemas)
      tb == SetToSeq(db.tables)
      co == SetToSeq(db.columns)
      kwIns == [i \in 1..Len(kw) |-> <<kw[i].keyword, kw[i].score>>]
      scIns == [i \in 1..Len(sc) |-> <<sc[i].name, 500>>]
      RECURSIVE TbIns(_)
      TbIns(q) == IF q = <<>> THEN <<>>
                  ELSE << <<Head(q).name, 400>>,
                          <<Head(q).schema_name \o Dot \o Head(q).name, 450>> >>
                       \o TbIns(Tail(q))
      coIns == [i \in 1..Len(co) |-> <<co[i].name, 300>>]
      loaded == (IF failAt = 0 \/ failAt > 1 THEN kwIns ELSE <<>>)
                \o (IF failAt = 0 \/ failAt > 2 THEN scIns ELSE <<>>)
                \o (IF failAt = 0 \/ failAt > 3 THEN TbIns(tb) ELSE <<>>)
                \o (IF failAt = 0 THEN coIns ELSE <<>>)
  IN [trie |-> InsertAll(trie, loaded),
      lastRefresh |-> IF failAt = 0 THEN now ELSE lastRefresh,
      err |-> failAt # 0]

\* ------------------------------------------------------ the live database

\* The rows of information_schema.schemata, in the order they are listed.
AllSchemas == <<InformationSchema, Hr, SystemSchema, Ops>>

\* RefreshAll's test for the schemas it skips.
IsInternal(schemaName) == schemaName = InformationSchema \/ schemaName = SystemSchema

VARIABLES
  live,              \* the Trino database: [schemas, tables, columns]
  dbChanges,         \* how many times the live database was changed
  cacheDb,           \* SchemaCache.db: the SQLite tables
  cacheTrie,         \* SchemaCache.trie
  cacheLastRefresh,  \* SchemaCache.lastRefresh (0: the zero time)
  refreshInterval,   \* SchemaIntrospector.refreshInterval, in minutes
  siLastRefresh,     \* SchemaIntrospector.lastRefresh (0: the zero time)
  stopRefresh,       \* SchemaIntrospector.stopRefresh: the channel's identity
  backgroundRefresh, \* SchemaIntrospector.backgroundRefresh
  mu,                \* SchemaIntrospector.mu: 0 free, else the goroutine holding it
  pc,                \* where each goroutine is
  frame,             \* who called the RefreshAll a goroutine is in
  todo,              \* RefreshAll: the schemas still to be visited
  arg,               \* RefreshSchema's schemaName, SetRefreshInterval's interval
  ticker,            \* runBackgroundRefresh: the period of the loop's ticker
  loopCh,            \* runBackgroundRefresh: the channel its select waits on
  pass,              \* history: the last refresh (RefreshAll, RefreshSchema) begun
  storeLog,          \* history: the last StoreSchema call
  clock,             \* logical time: advances when a refresh is started
  refreshesLeft,     \* refreshes that may still be started
  faultsLeft,        \* failures that may still be injected
  keywordTrie,       \* AutocompleteService.keywordTrie
  svcStart,          \* the outcome of AutocompleteService.Start in the handler
  trie,              \* a Trie used on its own
  sums,              \* history: per word, the sum of the scores and boosts given
  call,              \* history: the last Insert or BoostWord on the trie, and
                     \* the query made since, with the lists it can return
  cacheLock,         \* SchemaCache.lock: 0 free, else the goroutine write-holding it
  cacheFile,         \* the JSON snapshot file (schema_cache.json)
  maxSuggestions,    \* AutocompleteService.maxSuggestions
  compl,             \* history: the last GetCompletions call and what it can return
  access,            \* the goroutines that use the cache's trie, and the locks they hold
  browse,            \* the schema browser's cache (package schema) and its clock
  search,            \* history: the last FuzzySearch call
  handler            \* AutocompleteHandler: its suggestions and the Update goroutines

envVars == <<live, dbChanges>>
cacheVars == <<cacheDb, cacheTrie, cacheLastRefresh>>
siVars == <<refreshInterval, siLastRefresh, stopRefresh, backgroundRefresh, mu>>
procVars == <<pc, frame, todo, arg, ticker, loopCh>>
histVars == <<pass, storeLog>>
svcVars == <<keywordTrie, svcStart>>
unitVars == <<trie, sums, call>>
closeVars == <<cacheLock, cacheFile>>
complVars == <<maxSuggestions, compl>>
lateVars == <<access, browse, search, handler>>
vars == <<live, dbChanges, cacheDb, cacheTrie, cacheLastRefresh, refreshInterval,
          siLastRefresh, stopRefresh, backgroundRefresh, mu, pc, frame, todo, arg,
          ticker, loopCh, pass, storeLog, clock, refreshesLeft, faultsLeft,
          keywordTrie, svcStart, trie, sums, call, cacheLock, cacheFile,
          maxSuggestions, compl, access, browse, search, handler>>
budgetVars == <<clock, refreshesLeft, faultsLeft>>

Callers == 1..NumCallers
Loops == (NumCallers + 1)..(NumCallers + MaxLoops)
Procs == Callers \cup Loops
ChanIds == 1..(MaxLoops + 2)

\* NewSchemaIntrospector: refreshInterval: 30 * time.Minute
DefaultInterval == 30
Intervals == {DefaultInterval, 10}

\* SELECT schema_name FROM information_schema.schemata
ListSchemas == live.schemas

\* SELECT table_name FROM information_schema.tables WHERE table_schema = ?
ListTables(schemaName) ==
  SetToSeq({r.name : r \in {x \in live.tables : x.schema_name = schemaName}})

\* SELECT column_name, data_type FROM information_schema.columns WHERE ...
ListColumns(schemaName, tableName) ==
  SetToSeq({[Name |-> r.name, DataType |-> r.data_type,
             Table |-> tableName, Schema |-> schemaName] :
              r \in {x \in live.columns :
                       x.schema_name = schemaName /\ x.table_name = tableName}})

\* The SchemaMetadata RefreshAll and RefreshSchema build for one schema: a
\* table whose column listing fails (colFail) is left out, the others are kept.
BuildMetadata(schemaName, colFail, now) ==
  LET Listed(t) == t \notin colFail
      kept == SelectSeq(ListTables(schemaName), Listed)
  IN [Name |-> schemaName,
      LastUpdate |-> now,
      Tables |-> [i \in 1..Len(kept) |->
                    [Name |-> kept[i], Schema |-> schemaName,
                     Columns |-> ListColumns(schemaName, kept[i])]]]

NoPass == [op |-> "none", by |-> 0, listOk |-> FALSE, result |-> "none",
           attempted |-> {}, tblOk |-> {}, skipped |-> {}, storeCalled |-> {},
           stored |-> {}, changes |-> 0]
BeginPass(op, p) == [NoPass EXCEPT !.op = op, !.by = p, !.changes = dbChanges]
NoStore == [n |-> 0, name |-> <<>>, tables |-> {}, columns |-> {}, failAt |-> 0,
            err |-> FALSE]

\* No call has been made on the stand-alone trie.
NoCall == [n |-> 0, op |-> "none", word |-> <<>>, amount |-> 0, ok |-> FALSE,
           before |-> NewTrie, asked |-> "none", prefix |-> <<>>, limit |-> 0,
           maxDistance |-> 0, out |-> {}]
NoUnit == trie = NewTrie /\ sums = NewTrie /\ call = NoCall

\* NewAutocompleteService: maxSuggestions: 20
DefaultMaxSuggestions == 20

\* No call of the service has been made: the last call's kind, its inputs
\* and what it returned, and the BoostSuggestion calls so far.
NoCompl ==
  [op |-> "none", sql |-> <<>>, cursorPos |-> 0,
   ctx |-> [completionType |-> "Keyword", schema |-> <<>>, table |-> <<>>],
   failed |-> FALSE, out |-> <<>>,
   text |-> <<>>, type |-> "Keyword", boosts |-> 0]

\* No goroutine is using the cache's trie.
NoAccess == [pc |-> <<>>]

\* The schema browser has not been made.
NoBrowse == [made |-> FALSE]

\* FuzzySearch has not been called.
NoSearch == [asked |-> FALSE]

\* The handler has not been made.
NoHandler == [made |-> FALSE]

\* schema_cache.json has not been written.
NoFile == [written |-> FALSE, schemas |-> {}]

\* The state every specification starts from, but for the live database, the
\* persisted cache and the service.
InitBase ==
  /\ dbChanges = 0
  /\ refreshInterval = DefaultInterval
  /\ siLastRefresh = 0
  /\ stopRefresh = 1
  /\ backgroundRefresh = FALSE
  /\ mu = 0
  /\ pc = [p \in Procs |-> IF p \in Callers THEN "idle" ELSE "none"]
  /\ frame = [p \in Procs |-> IF p \in Callers THEN "manual" ELSE "loop"]
  /\ todo = [p \in Procs |-> <<>>]
  /\ arg = [p \in Procs |-> <<>>]
  /\ ticker = [p \in Procs |-> 0]
  /\ loopCh = [p \in Procs |-> 0]
  /\ pass = NoPass
  /\ storeLog = NoStore
  /\ clock = 1
  /\ cacheLock = 0
  /\ cacheFile = NoFile
  /\ maxSuggestions = DefaultMaxSuggestions
  /\ compl = NoCompl

InitCommon ==
  /\ InitBase
  /\ access = NoAccess
  /\ browse = NoBrowse
  /\ search = NoSearch
  /\ handler = NoHandler

\* --------------------------------------- SchemaIntrospector: the scheduler

\* A free goroutine slot for a new runBackgroundRefresh.
FreeSlots == {l \in Loops : pc[l] = "none"}
NewLoop == CHOOSE l \in FreeSlots : \A k \in FreeSlots : l <= k

\* make(chan struct{}): a channel nobody holds.
UnusedChans == {ch \in ChanIds : ch # stopRefresh /\ \A l \in Loops : loopCh[l] # ch}
NewChan == CHOOSE ch \in UnusedChans : \A k \in UnusedChans : ch <= k

\* A start that never finds a loop running.
NeverRunning == FALSE

\* StartBackgroundRefresh's test "if si.backgroundRefresh { return }".
AlreadyRunning == backgroundRefresh

\* The body of StartBackgroundRefresh, run by goroutine p, which goes on at
\* `after`: under si.mu (taken and released within the step, nothing in it
\* blocks) it sets the flag and starts the loop goroutine.
StartBody(p, after) ==
  /\ mu = 0
  /\ IF AlreadyRunning
     THEN /\ pc' = [pc EXCEPT ![p] = after]
          /\ UNCHANGED backgroundRefresh
     ELSE /\ FreeSlots # {}
          /\ backgroundRefresh' = TRUE
          /\ pc' = [pc EXCEPT ![p] = after, ![NewLoop] = "start"]

\* SchemaIntrospector.StartBackgroundRefresh
StartBackgroundRefresh(c) ==
  /\ pc[c] = "idle"
  /\ StartBody(c, "idle")
  /\ UNCHANGED <<envVars, cacheVars, refreshInterval, siLastRefresh, stopRefresh, mu,
                 frame, todo, arg, ticker, loopCh, histVars, budgetVars, svcVars,
                 unitVars, closeVars, complVars, lateVars>>

\* A stop that clears the flag and returns without signalling the loop.
StopWithoutSignal == "return"

\* What StopBackgroundRefresh does once it has cleared the flag: it sends on
\* si.stopRefresh, still holding si.mu.
StopSignal == "stop_send"

\* SchemaIntrospector.StopBackgroundRefresh up to its channel send: it takes
\* si.mu; when no loop runs it returns, else it clears the flag and, still
\* holding si.mu, blocks in "si.stopRefresh <- struct{}{}".
StopBackgroundRefresh(c) ==
  /\ pc[c] = "idle"
  /\ mu = 0
  /\ IF ~backgroundRefresh
     THEN UNCHANGED <<backgroundRefresh, mu, pc>>
     ELSE /\ backgroundRefresh' = FALSE
          /\ IF StopSignal = "stop_send"
             THEN mu' = c /\ pc' = [pc EXCEPT ![c] = "stop_send"]
             ELSE UNCHANGED <<mu, pc>>
  /\ UNCHANGED <<envVars, cacheVars, refreshInterval, siLastRefresh, stopRefresh,
                 frame, todo, arg, ticker, loopCh, histVars, budgetVars, svcVars,
                 unitVars, closeVars, complVars, lateVars>>

\* The send on the unbuffered si.stopRefresh completes only together with a
\* receive: a loop whose select waits on that channel takes "case
\* <-si.stopRefresh" and returns.
Receives(l, ch) == pc[l] = "select" /\ loopCh[l] = ch

\* StopBackgroundRefresh's send meets loop l's receive; Stop returns
\* (the deferred Unlock), the loop goroutine ends.
StopSend(c, l) ==
  /\ pc[c] = "stop_send"
  /\ Receives(l, stopRefresh)
  /\ mu' = 0
  /\ pc' = [pc EXCEPT ![c] = "idle", ![l] = "none"]
  /\ loopCh' = [loopCh EXCEPT ![l] = 0]
  /\ ticker' = [ticker EXCEPT ![l] = 0]
  /\ UNCHANGED <<envVars, cacheVars, refreshInterval, siLastRefresh, stopRefresh,
                 backgroundRefresh, frame, todo, arg, histVars, budgetVars, svcVars,
                 unitVars, closeVars, complVars, lateVars>>

\* SchemaIntrospector.SetRefreshInterval up to its channel send: under si.mu,
\* an unchanged interval changes nothing; a new one is stored and, when a loop
\* runs, the call blocks (holding si.mu) in the send that stops the old loop.
SetRefreshInterval(c, interval) ==
  /\ pc[c] = "idle"
  /\ mu = 0
  /\ IF refreshInterval = interval
     THEN UNCHANGED <<refreshInterval, mu, pc>>
     ELSE /\ refreshInterval' = interval
          /\ IF backgroundRefresh
             THEN /\ mu' = c
                  /\ pc' = [pc EXCEPT ![c] = "set_send"]
             ELSE UNCHANGED <<mu, pc>>
  /\ UNCHANGED <<envVars, cacheVars, siLastRefresh, stopRefresh, backgroundRefresh,
                 frame, todo, arg, ticker, loopCh, histVars, budgetVars, svcVars,
                 unitVars, closeVars, complVars, lateVars>>

\* SetRefreshInterval's send meets old loop l's receive; then it makes the new
\* channel, starts the new loop goroutine and returns.
SetSend(c, l) ==
  /\ pc[c] = "set_send"
  /\ Receives(l, stopRefresh)
  /\ stopRefresh' = NewChan
  /\ mu' = 0
  /\ LET fresh == CHOOSE k \in FreeSlots \cup {l} :
                    \A j \in FreeSlots \cup {l} : k <= j
     IN pc' = [[pc EXCEPT ![c] = "idle", ![l] = "none"] EXCEPT ![fresh] = "start"]
  /\ loopCh' = [loopCh EXCEPT ![l] = 0]
  /\ ticker' = [ticker EXCEPT ![l] = 0]
  /\ UNCHANGED <<envVars, cacheVars, refreshInterval, siLastRefresh,
                 backgroundRefresh, frame, todo, arg, histVars, budgetVars, svcVars,
                 unitVars, closeVars, complVars, lateVars>>

\* runBackgroundRefresh: ticker := time.NewTicker(si.refreshInterval)
LoopStart(l) ==
  /\ pc[l] = "start"
  /\ ticker' = [ticker EXCEPT ![l] = refreshInterval]
  /\ pc' = [pc EXCEPT ![l] = "enter"]
  /\ UNCHANGED <<envVars, cacheVars, siVars, frame, todo, arg, loopCh, histVars,
                 budgetVars, svcVars,
                 unitVars, closeVars, complVars, lateVars>>

\* runBackgroundRefresh: the select statement is entered; its channel operand
\* si.stopRefresh is evaluated now.
LoopSelect(l) ==
  /\ pc[l] = "enter"
  /\ loopCh' = [loopCh EXCEPT ![l] = stopRefresh]
  /\ pc' = [pc EXCEPT ![l] = "select"]
  /\ UNCHANGED <<envVars, cacheVars, siVars, frame, todo, arg, ticker, histVars,
                 budgetVars, svcVars,
                 unitVars, closeVars, complVars, lateVars>>

\* A refresh is started: time has passed since the last one.
StartRefresh ==
  /\ refreshesLeft > 0
  /\ refreshesLeft' = refreshesLeft - 1
  /\ clock' = clock + 1
  /\ UNCHANGED faultsLeft

\* runBackgroundRefresh: "case <-ticker.C": the loop leaves the select and
\* calls RefreshAll, which starts by waiting for si.mu.
Tick(l) ==
  /\ pc[l] = "select"
  /\ StartRefresh
  /\ pc' = [pc EXCEPT ![l] = "ra_lock"]
  /\ loopCh' = [loopCh EXCEPT ![l] = 0]
  /\ UNCHANGED <<envVars, cacheVars, siVars, frame, todo, arg, ticker, histVars,
                 svcVars,
                 unitVars, closeVars, complVars, lateVars>>

\* A loop that ends when its RefreshAll fails.
LoopExitOnError(err) == IF err THEN "none" ELSE "enter"

\* runBackgroundRefresh after RefreshAll returned: an error is logged and the
\* for loop goes round to the select again.
LoopResume(err) == "enter"

\* Where a goroutine goes on when its RefreshAll returns.
ReturnPc(p, err) ==
  CASE frame[p] = "loop" -> LoopResume(err)
    [] frame[p] = "svc" -> (IF err THEN "svc_err" ELSE "svc_ok")
    [] OTHER -> "idle"

\* ------------------------------------------ RefreshAll and RefreshSchema

\* The failures one schema's refresh may meet: the table listing (tablesOk),
\* the column listing of the tables in colFail, step failAt of StoreSchema.
\* Each injected failure is taken from faultsLeft.
FaultCost(tablesOk, colFail, failAt) ==
  (IF tablesOk THEN 0 ELSE 1) + Cardinality(colFail) + (IF failAt = 0 THEN 0 ELSE 1)

OracleOk(schemaName, tablesOk, colFail, failAt) ==
  /\ colFail \subseteq SeqToSet(ListTables(schemaName))
  /\ ~tablesOk => (colFail = {} /\ failAt = 0)
  /\ FaultCost(tablesOk, colFail, failAt) <= faultsLeft
  /\ failAt \in 0..(Len(Stmts(BuildMetadata(schemaName, colFail, clock))) + 2)

\* A manual caller calls RefreshAll; it starts by waiting for si.mu.
CallRefreshAll(c) ==
  /\ pc[c] = "idle"
  /\ StartRefresh
  /\ pc' = [pc EXCEPT ![c] = "ra_lock"]
  /\ frame' = [frame EXCEPT ![c] = "manual"]
  /\ UNCHANGED <<envVars, cacheVars, siVars, todo, arg, ticker, loopCh, histVars,
                 svcVars,
                 unitVars, closeVars, complVars, lateVars>>

\* A lock that is granted whoever holds the mutex.
MuIgnored == TRUE

\* si.mu.Lock() at the head of RefreshAll and RefreshSchema: the goroutine
\* waits until the mutex is free.
MuFree == mu = 0

\* RefreshAll: si.mu.Lock()
RA_Lock(p) ==
  /\ pc[p] = "ra_lock"
  /\ MuFree
  /\ mu' = p
  /\ pc' = [pc EXCEPT ![p] = "ra_list"]
  /\ pass' = BeginPass("RefreshAll", p)
  /\ UNCHANGED <<envVars, cacheVars, refreshInterval, siLastRefresh, stopRefresh,
                 backgroundRefresh, frame, todo, arg, ticker, loopCh, storeLog,
                 budgetVars, svcVars,
                 unitVars, closeVars, complVars, lateVars>>

\* RefreshAll: schemas, err := si.GetSchemas(); an error is returned at once
\* (the deferred Unlock runs).
RA_List(p, ok) ==
  /\ pc[p] = "ra_list"
  /\ IF ok
     THEN /\ todo' = [todo EXCEPT ![p] = ListSchemas]
          /\ pc' = [pc EXCEPT ![p] = "ra_schema"]
          /\ pass' = [pass EXCEPT !.listOk = TRUE]
          /\ UNCHANGED <<mu, faultsLeft>>
     ELSE /\ faultsLeft > 0
          /\ faultsLeft' = faultsLeft - 1
          /\ mu' = 0
          /\ pc' = [pc EXCEPT ![p] = ReturnPc(p, TRUE)]
          /\ pass' = [pass EXCEPT !.result = "err"]
          /\ UNCHANGED todo
  /\ UNCHANGED <<envVars, cacheVars, refreshInterval, siLastRefresh, stopRefresh,
                 backgroundRefresh, frame, arg, ticker, loopCh, storeLog, clock,
                 refreshesLeft, svcVars,
                 unitVars, closeVars, complVars, lateVars>>

\* A RefreshAll that gives up at the first failing table listing.
AbortOnTablesError(rest) == <<>>

\* What RefreshAll does when si.GetTables(schemaName) fails: it logs and
\* goes on with the next schema ("continue"): the schemas still to visit.
AfterTablesError(rest) == rest

\* The history record of a StoreSchema call.
StoreRecord(metadata, failAt, err) ==
  [n |-> storeLog.n + 1, name |-> metadata.Name,
   tables |-> {metadata.Tables[i].Name : i \in 1..Len(metadata.Tables)},
   columns |-> UNION {SeqToSet(metadata.Tables[i].Columns) : i \in 1..Len(metadata.Tables)},
   failAt |-> failAt, err |-> err]

\* RefreshAll: one round of "for _, schemaName := range schemas".
RA_Schema(p, tablesOk, colFail, failAt) ==
  /\ pc[p] = "ra_schema"
  /\ todo[p] # <<>>
  /\ LET schemaName == Head(todo[p])
         rest == Tail(todo[p])
     IN IF IsInternal(schemaName)
        THEN /\ tablesOk /\ colFail = {} /\ failAt = 0
             /\ todo' = [todo EXCEPT ![p] = rest]
             /\ UNCHANGED <<cacheVars, histVars, faultsLeft>>
        ELSE /\ OracleOk(schemaName, tablesOk, colFail, failAt)
             /\ faultsLeft' = faultsLeft - FaultCost(tablesOk, colFail, failAt)
             /\ IF ~tablesOk
                THEN /\ todo' = [todo EXCEPT ![p] = AfterTablesError(rest)]
                     /\ pass' = [pass EXCEPT !.attempted = @ \cup {schemaName}]
                     /\ UNCHANGED <<cacheVars, storeLog>>
                ELSE \E metadata \in {BuildMetadata(schemaName, colFail, clock)} :
                     \E r \in {StoreSchema(cacheDb, cacheTrie, cacheLastRefresh,
                                            metadata, failAt, clock)} :
                        /\ cacheDb' = r.db
                        /\ cacheTrie' = r.trie
                        /\ cacheLastRefresh' = r.lastRefresh
                        /\ storeLog' = StoreRecord(metadata, failAt, r.err)
                        /\ todo' = [todo EXCEPT ![p] = rest]
                        /\ pass' = [pass EXCEPT
                                      !.attempted = @ \cup {schemaName},
                                      !.tblOk = @ \cup {schemaName},
                                      !.skipped = @ \cup {<<schemaName, t>> : t \in colFail},
                                      !.storeCalled = @ \cup {schemaName},
                                      !.stored = IF r.err THEN @ ELSE @ \cup {schemaName}]
  /\ UNCHANGED <<envVars, siVars, pc, frame, arg, ticker, loopCh, clock,
                 refreshesLeft, svcVars,
                 unitVars, closeVars, complVars, lateVars>>

\* RefreshAll after the last schema: si.lastRefresh = time.Now(); return nil
\* (the deferred Unlock runs).
RA_Finish(p) ==
  /\ pc[p] = "ra_schema"
  /\ todo[p] = <<>>
  /\ siLastRefresh' = clock
  /\ mu' = 0
  /\ pc' = [pc EXCEPT ![p] = ReturnPc(p, FALSE)]
  /\ pass' = [pass EXCEPT !.result = "nil"]
  /\ UNCHANGED <<envVars, cacheVars, refreshInterval, stopRefresh, backgroundRefresh,
                 frame, todo, arg, ticker, loopCh, storeLog, budgetVars, svcVars,
                 unitVars, closeVars, complVars, lateVars>>

\* A manual caller calls RefreshSchema(schemaName); it starts by waiting for
\* si.mu.
CallRefreshSchema(c, schemaName) ==
  /\ pc[c] = "idle"
  /\ schemaName \in SeqToSet(ListSchemas)
  /\ StartRefresh
  /\ pc' = [pc EXCEPT ![c] = "rs_lock"]
  /\ arg' = [arg EXCEPT ![c] = schemaName]
  /\ UNCHANGED <<envVars, cacheVars, siVars, frame, todo, ticker, loopCh, histVars,
                 svcVars,
                 unitVars, closeVars, complVars, lateVars>>

\* RefreshSchema: si.mu.Lock()
RS_Lock(p) ==
  /\ pc[p] = "rs_lock"
  /\ MuFree
  /\ mu' = p
  /\ pc' = [pc EXCEPT ![p] = "rs_body"]
  /\ pass' = BeginPass("RefreshSchema", p)
  /\ UNCHANGED <<envVars, cacheVars, refreshInterval, siLastRefresh, stopRefresh,
                 backgroundRefresh, frame, todo, arg, ticker, loopCh, storeLog,
                 budgetVars, svcVars,
                 unitVars, closeVars, complVars, lateVars>>

\* RefreshSchema under si.mu: list the tables (an error is returned), list each
\* table's columns (a failing table is skipped), store the schema and return
\* StoreSchema's error (the deferred Unlock runs).
RS_Body(p, tablesOk, colFail, failAt) ==
  /\ pc[p] = "rs_body"
  /\ OracleOk(arg[p], tablesOk, colFail, failAt)
  /\ faultsLeft' = faultsLeft - FaultCost(tablesOk, colFail, failAt)
  /\ mu' = 0
  /\ pc' = [pc EXCEPT ![p] = "idle"]
  /\ arg' = [arg EXCEPT ![p] = <<>>]
  /\ IF ~tablesOk
     THEN /\ pass' = [pass EXCEPT !.attempted = {arg[p]}, !.result = "err"]
          /\ UNCHANGED <<cacheVars, storeLog>>
     ELSE \E metadata \in {BuildMetadata(arg[p], colFail, clock)} :
          \E r \in {StoreSchema(cacheDb, cacheTrie, cacheLastRefresh, metadata,
                                 failAt, clock)} :
             /\ cacheDb' = r.db
             /\ cacheTrie' = r.trie
             /\ cacheLastRefresh' = r.lastRefresh
             /\ storeLog' = StoreRecord(metadata, failAt, r.err)
             /\ pass' = [pass EXCEPT
                           !.attempted = {arg[p]}, !.tblOk = {arg[p]},
                           !.skipped = {<<arg[p], t>> : t \in colFail},
                           !.storeCalled = {arg[p]},
                           !.stored = IF r.err THEN {} ELSE {arg[p]},
                           !.result = IF r.err THEN "err" ELSE "nil"]
  /\ UNCHANGED <<envVars, refreshInterval, siLastRefresh, stopRefresh,
                 backgroundRefresh, frame, todo, ticker, loopCh, clock,
                 refreshesLeft, svcVars,
                 unitVars, closeVars, complVars, lateVars>>

\* ------------------------------------------- the live database changes

TableRow(schemaName, tableName) == [name |-> tableName, schema_name |-> schemaName]
ColumnRow(schemaName, tableName, columnName, dataType) ==
  [name |-> columnName, data_type |-> dataType,
   table_name |-> tableName, schema_name |-> schemaName]

\* No refresh is under way, one has been made and another can follow.
Quiet ==
  /\ \A p \in Procs : pc[p] \in {"idle", "none", "select", "start", "enter"}
  /\ pass.result # "none"
  /\ refreshesLeft > 0

\* CREATE TABLE / DROP TABLE / ADD COLUMN / DROP COLUMN in Trino, between two
\* refreshes.
AddTable(schemaName, tableName) ==
  /\ Quiet /\ dbChanges < MaxDbChanges
  /\ TableRow(schemaName, tableName) \notin live.tables
  /\ live' = [live EXCEPT !.tables = @ \cup {TableRow(schemaName, tableName)}]
  /\ dbChanges' = dbChanges + 1
  /\ UNCHANGED <<cacheVars, siVars, procVars, histVars, budgetVars, svcVars,
                 unitVars, closeVars, complVars, lateVars>>

DropTable(schemaName, tableName) ==
  /\ Quiet /\ dbChanges < MaxDbChanges
  /\ TableRow(schemaName, tableName) \in live.tables
  /\ live' = [live EXCEPT
                !.tables = @ \ {TableRow(schemaName, tableName)},
                !.columns = {r \in @ : ~(r.table_name = tableName
                                         /\ r.schema_name = schemaName)}]
  /\ dbChanges' = dbChanges + 1
  /\ UNCHANGED <<cacheVars, siVars, procVars, histVars, budgetVars, svcVars,
                 unitVars, closeVars, complVars, lateVars>>

AddColumn(schemaName, tableName, columnName, dataType) ==
  /\ Quiet /\ dbChanges < MaxDbChanges
  /\ TableRow(schemaName, tableName) \in live.tables
  /\ \A r \in live.columns :
       ~(r.name = columnName /\ r.table_name = tableName /\ r.schema_name = schemaName)
  /\ live' = [live EXCEPT !.columns =
                @ \cup {ColumnRow(schemaName, tableName, columnName, dataType)}]
  /\ dbChanges' = dbChanges + 1
  /\ UNCHANGED <<cacheVars, siVars, procVars, histVars, budgetVars, svcVars,
                 unitVars, closeVars, complVars, lateVars>>

DropColumn(schemaName, tableName, columnName) ==
  /\ Quiet /\ dbChanges < MaxDbChanges
  /\ \E r \in live.columns :
       r.name = columnName /\ r.table_name = tableName /\ r.schema_name = schemaName
  /\ live' = [live EXCEPT !.columns =
                {r \in @ : ~(r.name = columnName /\ r.table_name = tableName
                             /\ r.schema_name = schemaName)}]
  /\ dbChanges' = dbChanges + 1
  /\ UNCHANGED <<cacheVars, siVars, procVars, histVars, budgetVars, svcVars,
                 unitVars, closeVars, complVars, lateVars>>

\* ------------------------------------------------------- specifications

\* A live database with one table.
SmallLive ==
  [schemas |-> <<InformationSchema, Hr>>,
   tables |-> {TableRow(Hr, Ord)},
   columns |-> {ColumnRow(Hr, Ord, Id, "bigint")}]

\* The failures RefreshAll and RefreshSchema can meet on one schema: whether
\* the table listing succeeds, the tables whose column listing fails, the
\* failing step of StoreSchema.
Oracles == BOOLEAN \X (SUBSET TableNames) \X (0..9)
\* When the scheduler is checked: the table listing, and StoreSchema's Begin.
SchedOracles == BOOLEAN \X {{}} \X {0, 1}

\* The scheduler: an introspector over a fresh cache (as StartSchemaCacheUpdater
\* builds it), called concurrently by NumCallers goroutines.
SchedInit ==
  /\ InitCommon
  /\ refreshesLeft = SchedRefreshes
  /\ faultsLeft = SchedFaults
  /\ live = SmallLive
  /\ cacheDb = EmptyDb
  /\ cacheTrie = NewTrie
  /\ cacheLastRefresh = clock
  /\ keywordTrie = NewTrie
  /\ svcStart = "none"
  /\ NoUnit

SchedNext ==
  \/ \E c \in Callers :
       \/ StartBackgroundRefresh(c)
       \/ StopBackgroundRefresh(c)
       \/ \E interval \in Intervals : SetRefreshInterval(c, interval)
       \/ CallRefreshAll(c)
       \/ \E schemaName \in UserSchemas : CallRefreshSchema(c, schemaName)
       \/ \E l \in Loops : StopSend(c, l) \/ SetSend(c, l)
  \/ \E l \in Loops : LoopStart(l) \/ LoopSelect(l) \/ Tick(l)
  \/ \E p \in Procs :
       \/ RA_Lock(p)
       \/ \E ok \in BOOLEAN : RA_List(p, ok)
       \/ \E o \in SchedOracles : RA_Schema(p, o[1], o[2], o[3])
       \/ RA_Finish(p)
       \/ RS_Lock(p)
       \/ \E o \in SchedOracles : RS_Body(p, o[1], o[2], o[3])

SchedSpec == SchedInit /\ [][SchedNext]_vars

\* ------------------------------------------------ scheduler properties

\* The live loops.
LiveLoops == {l \in Loops : pc[l] # "none"}

\* Caller c waits in a channel send that no loop can ever receive: it holds
\* si.mu, and every loop has ended or waits for si.mu in RefreshAll.
SendBlockedForever(c) ==
  /\ mu = c
  /\ \A l \in Loops : pc[l] \in {"none", "ra_lock"}

\* C1: StopBackgroundRefresh on a running scheduler always returns: in no
\* reachable state is a Stop blocked for ever in its send on si.stopRefresh.
C1_StopAlwaysReturns ==
  \A c \in Callers : pc[c] = "stop_send" => ~SendBlockedForever(c)

\* C2: once StopBackgroundRefresh has returned (the flag is clear and no Stop
\* is still sending), no background loop is left that could take a tick and
\* start another RefreshAll.
C2_NoRefreshAfterStop ==
  (~backgroundRefresh /\ \A c \in Callers : pc[c] # "stop_send") => LiveLoops = {}

\* A loop ran a RefreshAll to its end and a later Stop has returned.
C2_Witness ==
  /\ ~backgroundRefresh
  /\ \A c \in Callers : pc[c] = "idle"
  /\ pass.by \in Loops /\ pass.result = "nil"

\* C3: under any interleaving of StartBackgroundRefresh,
\* StopBackgroundRefresh, SetRefreshInterval and ticks, at most one
\* background loop is alive.
C3_AtMostOneLoop == Cardinality(LiveLoops) <= 1

\* SetRefreshInterval has handed over from the old loop to a new one (the
\* channel is a new one), and a Start on the running scheduler has returned.
C3_Witness ==
  /\ stopRefresh # 1
  /\ backgroundRefresh
  /\ Cardinality(LiveLoops) = 1
  /\ \E l \in LiveLoops : ticker[l] = refreshInterval /\ ticker[l] # DefaultInterval

\* C4: SetRefreshInterval with a new interval on a running scheduler always
\* returns: in no reachable state is it blocked for ever in the send that
\* stops the old loop, not even when that loop has just taken a tick.
C4_SetIntervalAlwaysReturns ==
  \A c \in Callers : pc[c] = "set_send" => ~SendBlockedForever(c)

\* The goroutines inside the critical section of si.mu.
InCritical ==
  {p \in Procs : pc[p] \in {"ra_list", "ra_schema", "rs_body", "set_send", "stop_send"}}

\* C5: RefreshAll, RefreshSchema and SetRefreshInterval exclude each other:
\* at most one goroutine is inside the critical section, and it holds si.mu.
C5_MutualExclusion ==
  /\ Cardinality(InCritical) <= 1
  /\ \A p \in InCritical : mu = p

\* The background loop is inside RefreshAll while a manual caller waits for
\* the mutex.
C5_Witness ==
  \E l \in Loops, c \in Callers :
    /\ pc[l] = "ra_schema"
    /\ pc[c] \in {"ra_lock", "rs_lock"}

\* C8: when a background RefreshAll fails to list the schemas, only that pass
\* ends: the loop goes back to its select with its ticker, and the scheduler
\* stays running.
C8_LoopSurvivesFailure ==
  [][\A l \in Loops :
       (pc[l] = "ra_list" /\ pc'[l] # "ra_list" /\ pass'.result = "err")
         => (pc'[l] = "enter" /\ backgroundRefresh' /\ ticker'[l] = ticker[l])]_vars

\* After a failed background pass the same loop has taken its next tick.
C8_Witness ==
  \E l \in Loops :
    /\ pass.by = l /\ pass.op = "RefreshAll" /\ pass.result = "err"
    /\ pc[l] = "ra_lock"
    /\ backgroundRefresh

\* ------------------------------------------------------ the refresh itself

\* A live database with two user schemas.
RichLive ==
  [schemas |-> AllSchemas,
   tables |-> {TableRow(Hr, Ord), TableRow(Ops, Usr)},
   columns |-> {ColumnRow(Hr, Ord, Id, "bigint"), ColumnRow(Ops, Usr, Id, "bigint")}]

\* The schemas whose tables and columns are added and dropped.
ChangedSchemas == {Hr}

\* The goroutine that refreshes.
Refresher == CHOOSE c \in Callers : \A d \in Callers : c <= d

\* One goroutine refreshes a fresh cache from a live database that changes
\* between the refreshes; every listing and every step of StoreSchema may fail.
RefreshInit ==
  /\ InitCommon
  /\ refreshesLeft = MaxRefreshes
  /\ faultsLeft = MaxFaults
  /\ live = RichLive
  /\ cacheDb = EmptyDb
  /\ cacheTrie = NewTrie
  /\ cacheLastRefresh = clock
  /\ keywordTrie = NewTrie
  /\ svcStart = "none"
  /\ NoUnit

RefreshNext ==
  \/ CallRefreshAll(Refresher)
  \/ \E schemaName \in UserSchemas : CallRefreshSchema(Refresher, schemaName)
  \/ RA_Lock(Refresher)
  \/ \E ok \in BOOLEAN : RA_List(Refresher, ok)
  \/ \E o \in Oracles : RA_Schema(Refresher, o[1], o[2], o[3])
  \/ RA_Finish(Refresher)
  \/ RS_Lock(Refresher)
  \/ \E o \in Oracles : RS_Body(Refresher, o[1], o[2], o[3])
  \/ \E schemaName \in ChangedSchemas, tableName \in TableNames :
       \/ AddTable(schemaName, tableName)
       \/ DropTable(schemaName, tableName)
       \/ \E columnName \in ColumnNames :
            \/ AddColumn(schemaName, tableName, columnName, "varchar")
            \/ DropColumn(schemaName, tableName, columnName)

RefreshSpec == RefreshInit /\ [][RefreshNext]_vars

\* What the cache's queries return.
Queries(db) ==
  [schemas |-> GetSchemas(db),
   tables |-> [s \in UserSchemas |-> GetTables(db, s)],
   columns |-> [s \in UserSchemas |-> [t \in TableNames |-> GetColumns(db, s, t)]]]

\* C6: StoreSchema is all-or-nothing for the cache's queries: after a call
\* that failed (at Begin, at any upsert or at Commit) GetSchemas, GetTables and
\* GetColumns return what they returned before it; after a call that
\* succeeded they return the schema, all its tables and all their columns.
C6_StoreSchemaAtomic ==
  [][storeLog' # storeLog =>
       IF storeLog'.err
       THEN Queries(cacheDb') = Queries(cacheDb)
       ELSE /\ storeLog'.name \in GetSchemas(cacheDb')
            /\ storeLog'.tables \subseteq GetTables(cacheDb', storeLog'.name)
            /\ \A col \in storeLog'.columns :
                 col \in GetColumns(cacheDb', col.Schema, col.Table)]_vars

\* A StoreSchema failed after its first upserts had run, on a cache that
\* already held rows.
C6_Witness ==
  /\ storeLog.err
  /\ storeLog.failAt > 2
  /\ storeLog.n > 1
  /\ cacheDb.tables # {}

\* The schemas of the live database that RefreshAll does not skip.
RefreshedSchemas == {s \in SeqToSet(ListSchemas) : ~IsInternal(s)}

\* C7: when the schemas could be listed, RefreshAll returns nil, has visited
\* every non-system schema, has called StoreSchema for each one whose tables
\* could be listed, and each one stored is in the cache, whatever failed on
\* the other schemas and tables.
C7_PartialRefresh ==
  (pass.op = "RefreshAll" /\ pass.listOk /\ pass.result # "none") =>
    /\ pass.result = "nil"
    /\ pass.attempted = RefreshedSchemas
    /\ pass.storeCalled = pass.tblOk
    /\ pass.stored \subseteq GetSchemas(cacheDb)
    /\ \A s \in pass.stored :
         \A t \in SeqToSet(ListTables(s)) :
           (pass.changes = dbChanges /\ <<s, t>> \notin pass.skipped)
             => t \in GetTables(cacheDb, s)

\* A pass in which one schema's table listing failed and another schema was
\* stored.
C7_Witness ==
  /\ pass.op = "RefreshAll" /\ pass.result = "nil"
  /\ pass.attempted # pass.tblOk
  /\ pass.stored # {}

\* A finished RefreshAll in which nothing failed, with the live database as
\* it was during the pass.
CleanPass ==
  /\ pass.op = "RefreshAll" /\ pass.result = "nil"
  /\ pass.stored = RefreshedSchemas
  /\ pass.skipped = {}
  /\ pass.changes = dbChanges

\* C10: after a RefreshAll in which every listing and every StoreSchema
\* succeeded, the cache mirrors the live database: GetTables and GetColumns
\* return exactly the live tables and columns of every non-system schema.
C10_CacheMirrorsLive ==
  CleanPass =>
    \A s \in RefreshedSchemas :
      /\ GetTables(cacheDb, s) = SeqToSet(ListTables(s))
      /\ \A t \in TableNames : GetColumns(cacheDb, s, t) = SeqToSet(ListColumns(s, t))

\* --------------------------------------------- the autocomplete service

\* Some of CommonSQLKeywords.
CommonSQLKeywords ==
  << <<"S","E","L","E","C","T">>, <<"S","E","T">>, <<"F","R","O","M">> >>

\* AutocompleteService.getKeywordSuggestions: the keywords the keyword trie
\* holds below the upper-cased prefix, ten at most.
getKeywordSuggestions(prefix) == GetSuggestions(keywordTrie, ToUpper(prefix), 10)

\* A cache database left by an earlier session.
PersistedDb ==
  ExecAll(EmptyDb,
          Stmts([Name |-> Hr, LastUpdate |-> 0,
                 Tables |-> <<[Name |-> Ord, Schema |-> Hr,
                               Columns |-> <<[Name |-> Id, DataType |-> "bigint",
                                              Table |-> Ord, Schema |-> Hr]>>]>>]),
          0)

\* A failing query of loadTrieFromCache is one injected failure.
LoadFault(failAt) ==
  /\ (failAt # 0 => faultsLeft > 0)
  /\ faultsLeft' = faultsLeft - (IF failAt = 0 THEN 0 ELSE 1)

\* NewAutocompleteHandler up to service.Start(): NewAutocompleteService opens
\* the cache (NewSchemaCache loads the trie; a failure is only logged), makes
\* the introspector and fills the keyword trie.
NewAutocompleteHandler(c, failAt) ==
  /\ pc[c] = "idle"
  /\ svcStart = "none"
  /\ LoadFault(failAt)
  /\ LET r == LoadTrie(cacheDb, NewTrie, cacheLastRefresh, failAt, clock)
     IN /\ cacheTrie' = r.trie
        /\ cacheLastRefresh' = r.lastRefresh
  /\ keywordTrie' = InsertAll(NewTrie, [i \in 1..Len(CommonSQLKeywords) |->
                                          <<CommonSQLKeywords[i], 1>>])
  /\ svcStart' = "starting"
  /\ pc' = [pc EXCEPT ![c] = "svc_load"]
  /\ UNCHANGED <<envVars, cacheDb, siVars, frame, todo, arg, ticker, loopCh,
                 histVars, clock, refreshesLeft,
                 unitVars, closeVars, complVars, lateVars>>

\* AutocompleteService.Start: LoadCache (a failure is only logged), then the
\* call of RefreshAll, which starts by waiting for si.mu.
SvcLoadCache(c, failAt) ==
  /\ pc[c] = "svc_load"
  /\ refreshesLeft > 0
  /\ refreshesLeft' = refreshesLeft - 1
  /\ clock' = clock + 1
  /\ LoadFault(failAt)
  /\ LET r == LoadTrie(cacheDb, cacheTrie, cacheLastRefresh, failAt, clock)
     IN /\ cacheTrie' = r.trie
        /\ cacheLastRefresh' = r.lastRefresh
  /\ frame' = [frame EXCEPT ![c] = "svc"]
  /\ pc' = [pc EXCEPT ![c] = "ra_lock"]
  /\ UNCHANGED <<envVars, cacheDb, siVars, todo, arg, ticker, loopCh, histVars,
                 svcVars,
                 unitVars, closeVars, complVars, lateVars>>

\* AutocompleteService.Start when RefreshAll returned an error: Start returns
\* the error; NewAutocompleteHandler logs a warning and returns the handler.
SvcStartFailed(c) ==
  /\ pc[c] = "svc_err"
  /\ pc' = [pc EXCEPT ![c] = "idle"]
  /\ frame' = [frame EXCEPT ![c] = "manual"]
  /\ svcStart' = "err"
  /\ UNCHANGED <<envVars, cacheVars, siVars, todo, arg, ticker, loopCh, histVars,
                 budgetVars, keywordTrie,
                 unitVars, closeVars, complVars, lateVars>>

\* AutocompleteService.Start when RefreshAll returned nil: it calls
\* StartBackgroundRefresh and returns nil.
SvcStartBackground(c) ==
  /\ pc[c] = "svc_ok"
  /\ StartBody(c, "idle")
  /\ frame' = [frame EXCEPT ![c] = "manual"]
  /\ svcStart' = "ok"
  /\ UNCHANGED <<envVars, cacheVars, refreshInterval, siLastRefresh, stopRefresh, mu,
                 todo, arg, ticker, loopCh, histVars, budgetVars, keywordTrie,
                 unitVars, closeVars, complVars, lateVars>>

\* AutocompleteHandler.Stop, when the application closes.
HandlerStop(c) ==
  /\ svcStart \in {"ok", "err"}
  /\ StopBackgroundRefresh(c)

\* The handler is constructed over a cache file that is new or left by an
\* earlier session; afterwards the loop ticks and the application closes.
StartInit ==
  /\ InitCommon
  /\ refreshesLeft = MaxRefreshes
  /\ faultsLeft = MaxFaults
  /\ live = SmallLive
  /\ cacheDb \in {EmptyDb, PersistedDb}
  /\ cacheTrie = NewTrie
  /\ cacheLastRefresh = 0
  /\ keywordTrie = NewTrie
  /\ svcStart = "none"
  /\ NoUnit

StartNext ==
  \/ \E failAt \in 0..4 :
       \/ NewAutocompleteHandler(Refresher, failAt)
       \/ SvcLoadCache(Refresher, failAt)
  \/ SvcStartFailed(Refresher)
  \/ SvcStartBackground(Refresher)
  \/ HandlerStop(Refresher)
  \/ \E l \in Loops : StopSend(Refresher, l) \/ LoopStart(l) \/ LoopSelect(l) \/ Tick(l)
  \/ \E p \in Procs :
       \/ RA_Lock(p)
       \/ \E ok \in BOOLEAN : RA_List(p, ok)
       \/ \E o \in Oracles : RA_Schema(p, o[1], o[2], o[3])
       \/ RA_Finish(p)

StartSpec == StartInit /\ [][StartNext]_vars

\* C9: when the first refresh at service start fails, the handler is still
\* constructed with the scheduler running, and keyword suggestions are
\* answered.
C9_StartSurvivesFailedRefresh ==
  svcStart = "err" =>
    /\ backgroundRefresh
    /\ \A r \in getKeywordSuggestions(<<"s", "e">>) : r # <<>>


\* --------------------------------------------------- SchemaCache.Close

\* sc.lock.RLock(): granted when no goroutine holds the write lock. A
\* sync.RWMutex is not re-entrant: the holder of the write lock waits as well.
RLockFree == cacheLock = 0

\* What exportToJSON collects for one row of the schemas table, through
\* sc.GetTables and sc.GetColumns.
ExportedSchema(db, schemaName) ==
  [Name |-> schemaName,
   Tables |-> {[Name |-> t, Schema |-> schemaName,
                Columns |-> GetColumns(db, schemaName, t)] :
                 t \in GetTables(db, schemaName)}]

\* Close: sc.lock.Lock() (the Unlock is deferred to the return).
CallClose(c) ==
  /\ pc[c] = "idle"
  /\ cacheLock = 0
  /\ cacheLock' = c
  /\ pc' = [pc EXCEPT ![c] = "close_export"]
  /\ UNCHANGED <<envVars, cacheVars, siVars, frame, todo, arg, ticker, loopCh,
                 histVars, budgetVars, svcVars, unitVars, cacheFile,
                 complVars, lateVars>>

\* exportToJSON: "SELECT name, last_update FROM schemas". A failing query
\* ends the export with an error, which Close logs as a warning.
Export_Query(c, ok) ==
  /\ pc[c] = "close_export"
  /\ IF ok
     THEN /\ todo' = [todo EXCEPT ![c] = SetToSeq(GetSchemas(cacheDb))]
          /\ arg' = [arg EXCEPT ![c] = <<>>]
          /\ pc' = [pc EXCEPT ![c] = "export_rows"]
     ELSE /\ pc' = [pc EXCEPT ![c] = "close_db"]
          /\ UNCHANGED <<todo, arg>>
  /\ UNCHANGED <<envVars, cacheVars, siVars, frame, ticker, loopCh, histVars,
                 budgetVars, svcVars, unitVars, closeVars, complVars, lateVars>>

\* exportToJSON: the loop over the rows. For a row it calls sc.GetTables,
\* which starts with sc.lock.RLock(), then sc.GetColumns per table; an error
\* of either ends the export. After the last row it marshals what it
\* collected and writes the file; a failure is returned to Close, which logs
\* it.
Export_Rows(c, ok) ==
  /\ pc[c] = "export_rows"
  /\ IF todo[c] = <<>>
     THEN /\ cacheFile' = IF ok THEN [written |-> TRUE, schemas |-> SeqToSet(arg[c])]
                                ELSE cacheFile
          /\ arg' = [arg EXCEPT ![c] = <<>>]
          /\ pc' = [pc EXCEPT ![c] = "close_db"]
          /\ todo' = todo
     ELSE /\ RLockFree
          /\ IF ok
             THEN /\ arg' = [arg EXCEPT ![c] = Append(@, ExportedSchema(cacheDb, Head(todo[c])))]
                  /\ todo' = [todo EXCEPT ![c] = Tail(@)]
                  /\ pc' = pc
             ELSE /\ arg' = [arg EXCEPT ![c] = <<>>]
                  /\ todo' = [todo EXCEPT ![c] = <<>>]
                  /\ pc' = [pc EXCEPT ![c] = "close_db"]
          /\ cacheFile' = cacheFile
  /\ UNCHANGED <<envVars, cacheVars, siVars, frame, ticker, loopCh, histVars,
                 budgetVars, svcVars, unitVars, cacheLock,
                 complVars, lateVars>>

\* Close: return sc.db.Close(); the deferred sc.lock.Unlock() runs.
Close_Db(c) ==
  /\ pc[c] = "close_db"
  /\ cacheLock' = 0
  /\ pc' = [pc EXCEPT ![c] = "closed"]
  /\ UNCHANGED <<envVars, cacheVars, siVars, frame, todo, arg, ticker, loopCh,
                 histVars, budgetVars, svcVars, unitVars, cacheFile,
                 complVars, lateVars>>

\* One goroutine refreshes a fresh cache from the live database, any number
\* of times and with failures, and then closes the cache.
CloseInit ==
  /\ InitCommon
  /\ refreshesLeft = MaxRefreshes
  /\ faultsLeft = MaxFaults
  /\ live = RichLive
  /\ cacheDb = EmptyDb
  /\ cacheTrie = NewTrie
  /\ cacheLastRefresh = clock
  /\ keywordTrie = NewTrie
  /\ svcStart = "none"
  /\ NoUnit

CloseNext ==
  \/ CallRefreshAll(Refresher)
  \/ \E schemaName \in UserSchemas : CallRefreshSchema(Refresher, schemaName)
  \/ RA_Lock(Refresher)
  \/ \E ok \in BOOLEAN : RA_List(Refresher, ok)
  \/ \E o \in Oracles : RA_Schema(Refresher, o[1], o[2], o[3])
  \/ RA_Finish(Refresher)
  \/ RS_Lock(Refresher)
  \/ \E o \in Oracles : RS_Body(Refresher, o[1], o[2], o[3])
  \/ CallClose(Refresher)
  \/ \E ok \in BOOLEAN : Export_Query(Refresher, ok)
  \/ \E ok \in BOOLEAN : Export_Rows(Refresher, ok)
  \/ Close_Db(Refresher)

CloseSpec == CloseInit /\ [][CloseNext]_vars

\* C11: Close never blocks on its own lock: in no reachable state does the
\* goroutine that holds sc.lock for writing wait in exportToJSON for the read
\* lock that sc.GetTables takes for a row of the schemas table.
C11_CloseNeverBlocksOnOwnLock ==
  \A c \in Callers :
    ~(pc[c] = "export_rows" /\ todo[c] # <<>> /\ cacheLock = c)


\* ------------------------------------------------------ the Trie in use

\* The arguments of the calls.
InsertWords == {<<"s", "e">>, <<"S", "u">>, <<"s">>}
BoostWords == {<<"S", "E">>, <<"s", "u">>, <<"s">>}
Scores == {-2, 3}
QueryPrefixes == {<<>>, <<"s">>, <<"S", "E">>, <<"x">>}
Limits == 0..MaxLimit

\* t.Insert(word, score)
TrieInsert(word, score) ==
  /\ call.n < MaxTrieOps
  /\ trie' = Insert(trie, word, score)
  /\ sums' = [x \in DOMAIN sums \cup {ToLower(word)} |->
                (IF x \in DOMAIN sums THEN sums[x] ELSE 0)
                + (IF x = ToLower(word) THEN score ELSE 0)]
  /\ call' = [NoCall EXCEPT !.n = call.n + 1, !.op = "Insert", !.word = word,
                            !.amount = score, !.ok = TRUE, !.before = trie]
  /\ UNCHANGED <<envVars, cacheVars, siVars, procVars, histVars, budgetVars,
                 svcVars, closeVars, complVars, lateVars>>

\* t.BoostWord(word, boostAmount)
TrieBoost(word, boostAmount) ==
  /\ call.n < MaxTrieOps
  /\ \E r \in {BoostWord(trie, word, boostAmount)} :
       /\ trie' = r.trie
       /\ sums' = IF r.ok THEN [sums EXCEPT ![ToLower(word)] = @ + boostAmount]
                          ELSE sums
       /\ call' = [NoCall EXCEPT !.n = call.n + 1, !.op = "BoostWord",
                                 !.word = word, !.amount = boostAmount,
                                 !.ok = r.ok, !.before = trie]
  /\ UNCHANGED <<envVars, cacheVars, siVars, procVars, histVars, budgetVars,
                 svcVars, closeVars, complVars, lateVars>>

\* t.GetSuggestions(prefix, limit)
TrieSuggest(prefix, limit) ==
  /\ call.asked = "none"
  /\ call' = [call EXCEPT !.asked = "GetSuggestions", !.prefix = prefix,
                          !.limit = limit, !.maxDistance = 0,
                          !.out = GetSuggestions(trie, prefix, limit)]
  /\ UNCHANGED <<envVars, cacheVars, siVars, procVars, histVars, budgetVars,
                 svcVars, closeVars, complVars, lateVars,
                 trie, sums>>

\* A new trie receives Insert and BoostWord calls, with GetSuggestions calls
\* in between.
TrieInit ==
  /\ InitCommon
  /\ refreshesLeft = 0
  /\ faultsLeft = 0
  /\ live = SmallLive
  /\ cacheDb = EmptyDb
  /\ cacheTrie = NewTrie
  /\ cacheLastRefresh = clock
  /\ keywordTrie = NewTrie
  /\ svcStart = "none"
  /\ NoUnit

TrieNext ==
  \/ \E word \in InsertWords, score \in Scores : TrieInsert(word, score)
  \/ \E word \in BoostWords, boostAmount \in Scores : TrieBoost(word, boostAmount)
  \/ \E prefix \in QueryPrefixes, limit \in Limits : TrieSuggest(prefix, limit)

TrieSpec == TrieInit /\ [][TrieNext]_vars

C13_BoostMissingIsNoOp ==
  call.op = "BoostWord" =>
    /\ call.ok <=> ToLower(call.word) \in Words(call.before)
    /\ ~call.ok => (trie = call.before /\ Nodes(trie) = Nodes(call.before))

\* A BoostWord returned false on a proper prefix of a stored word.
C13_Witness ==
  /\ call.op = "BoostWord"
  /\ ~call.ok
  /\ call.word \in Nodes(trie)
  /\ call.word \notin Words(trie)
  /\ call.word # <<>>

\* C14: scores are non-negative and never decrease: after an Insert or a
\* BoostWord every word's score is at least what it was before the call,
\* and at least zero.
C14_ScoresNeverDecrease ==
  /\ \A x \in Words(trie) : trie[x] >= 0
  /\ \A x \in Words(call.before) : trie[x] >= call.before[x]


\* The stored words that start with the lower-cased prefix asked for.
Matching == {w \in Words(trie) : StartsWith(w, ToLower(call.prefix))}

\* C15: prefix correctness of GetSuggestions. Every word returned is a stored
\* word that starts with the lower-cased prefix; a stored word w that starts
\* with it is returned whenever limit is at least the number of matching
\* words whose score is w's or higher; a prefix no stored word starts with
\* gives the empty list.
C15_PrefixCorrectness ==
  call.asked = "GetSuggestions" =>
    \A r \in call.out :
      /\ SeqToSet(r) \subseteq Matching
      /\ \A w \in Matching :
           call.limit >= Cardinality({v \in Matching : trie[v] >= trie[w]})
             => w \in SeqToSet(r)
      /\ Matching = {} => r = <<>>

\* GetSuggestions("SE", limit) returned every matching word of a trie that
\* also holds a word outside the prefix.
C15_Witness ==
  /\ call.asked = "GetSuggestions"
  /\ call.prefix = <<"S", "E">>
  /\ Matching # {}
  /\ Matching # Words(trie)
  /\ \E r \in call.out : SeqToSet(r) = Matching

\* C16: GetSuggestions returns at most limit words, in non-increasing order
\* of their current score; so when the last BoostWord raised a's score above
\* b's, a list that holds both has a before b.
C16_SortedAndLimited ==
  call.asked = "GetSuggestions" =>
    \A r \in call.out :
      /\ Len(r) <= call.limit
      /\ \A i, j \in 1..Len(r) : i < j => trie[r[i]] >= trie[r[j]]
      /\ (call.op = "BoostWord" /\ call.ok) =>
           \A a, b \in SeqToSet(r) :
             (call.before[a] <= call.before[b] /\ trie[a] > trie[b])
               => (Before(r, a, b) /\ ~Before(r, b, a))

\* A BoostWord raised a word above another one and the next GetSuggestions
\* returned both.
C16_Witness ==
  /\ call.asked = "GetSuggestions"
  /\ call.op = "BoostWord" /\ call.ok
  /\ \E r \in call.out : \E a, b \in SeqToSet(r) :
       call.before[a] <= call.before[b] /\ trie[a] > trie[b]

\* C17: GetSuggestions is deterministic: for a given trie content, prefix and
\* limit there is one list it can return.
C17_Deterministic ==
  call.asked = "GetSuggestions" => Cardinality(call.out) = 1


\* --------------------------------------------------------- fuzzy matching

\* The strings over an alphabet, of the lengths lo to hi.
Strings(alphabet, lo, hi) == UNION {[1..k -> alphabet] : k \in lo..hi}

FuzzyWords == Strings({"A", "b"}, 1, MaxWordLen)
FuzzyQueries == Strings({"a", "B"}, 0, MaxQueryLen)
FuzzyScore == 5

\* t.Insert(word, score), on a trie of few words; the history keeps the
\* number of calls only.
FuzzyInsert(word, score) ==
  /\ call.n < MaxFuzzyWords
  /\ trie' = Insert(trie, word, score)
  /\ sums' = trie'
  /\ call' = [NoCall EXCEPT !.n = call.n + 1, !.op = "Insert", !.ok = TRUE]
  /\ UNCHANGED <<envVars, cacheVars, siVars, procVars, histVars, budgetVars,
                 svcVars, closeVars, complVars, lateVars>>

\* t.GetFuzzyMatches(prefix, maxDistance, limit)
TrieFuzzy(prefix, maxDistance, limit) ==
  /\ call.n > 0
  /\ call.asked = "none"
  /\ call' = [call EXCEPT !.asked = "GetFuzzyMatches", !.prefix = prefix,
                          !.limit = limit, !.maxDistance = maxDistance,
                          !.out = GetFuzzyMatches(trie, prefix, maxDistance, limit)]
  /\ UNCHANGED <<envVars, cacheVars, siVars, procVars, histVars, budgetVars,
                 svcVars, closeVars, complVars, lateVars,
                 trie, sums>>

\* Words are inserted in a new trie, which is then asked for fuzzy matches.
FuzzyNext ==
  \/ \E word \in FuzzyWords : FuzzyInsert(word, FuzzyScore)
  \/ \E prefix \in FuzzyQueries, maxDistance \in 0..MaxDistance,
          limit \in {1, MaxFuzzyWords} :
       TrieFuzzy(prefix, maxDistance, limit)

FuzzySpec == TrieInit /\ [][FuzzyNext]_vars

\* The edit distance of two strings: the least number of insertions,
\* deletions and substitutions of one character that turn a into b.
RECURSIVE EditDistance(_, _)
EditDistance(a, b) ==
  IF a = <<>> THEN Len(b)
  ELSE IF b = <<>> THEN Len(a)
  ELSE LET same == EditDistance(Tail(a), Tail(b)) + (IF Head(a) = Head(b) THEN 0 ELSE 1)
           del == EditDistance(Tail(a), b) + 1
           ins == EditDistance(a, Tail(b)) + 1
           least == IF del < ins THEN del ELSE ins
       IN IF same < least THEN same ELSE least

\* C18: fuzzy soundness: no word that GetFuzzyMatches returns is further than
\* maxDistance edits from the lower-cased query.
C18_FuzzySound ==
  call.asked = "GetFuzzyMatches" =>
    \A r \in call.out : \A w \in SeqToSet(r) :
      EditDistance(w, ToLower(call.prefix)) <= call.maxDistance

SchemaNames == {ToLower(r.name) : r \in cacheDb.schemas}
TableOnlyNames == {ToLower(r.name) : r \in cacheDb.tables} \ SchemaNames
ColumnOnlyNames ==
  {ToLower(r.name) : r \in cacheDb.columns} \ (SchemaNames \cup TableOnlyNames)

\* C20: in the cache's trie, after StoreSchema calls that all succeeded, every
\* schema name scores strictly higher than every name that is only a table
\* name, and every such table name strictly higher than every name that is
\* only a column name.
C20_SchemaAboveTableAboveColumn ==
  (faultsLeft = MaxFaults /\ pass.result = "nil") =>
    /\ \A s \in SchemaNames, n \in TableOnlyNames : cacheTrie[s] > cacheTrie[n]
    /\ \A n \in TableOnlyNames, c \in ColumnOnlyNames : cacheTrie[n] > cacheTrie[c]


\* =========================================================== completions
\* ------------------------------------------------------ package strings

\* Go's s[a:b], with Go's indexes, which count from zero.
Slice(s, a, b) == SubSeq(s, a + 1, b)

\* The indexes at which substr occurs in s.
IndexesOf(s, substr) ==
  {i \in 0..(Len(s) - Len(substr)) : Slice(s, i, i + Len(substr)) = substr}

\* strings.LastIndex
LastIndex(s, substr) ==
  IF IndexesOf(s, substr) = {} THEN -1
  ELSE CHOOSE i \in IndexesOf(s, substr) : \A j \in IndexesOf(s, substr) : j <= i

\* strings.Contains
Contains(s, substr) == IndexesOf(s, substr) # {}

\* strings.HasPrefix
HasPrefix(s, prefix) == StartsWith(s, prefix)

\* unicode.IsSpace, for the characters the texts are written in.
IsSpace(c) == c = " "

\* strings.TrimSpace
TrimSpace(s) ==
  LET keep == {i \in 1..Len(s) : ~IsSpace(s[i])}
  IN IF keep = {} THEN <<>>
     ELSE SubSeq(s, CHOOSE i \in keep : \A j \in keep : i <= j,
                    CHOOSE i \in keep : \A j \in keep : j <= i)

\* strings.Fields: the maximal runs of characters that are not white space.
RECURSIVE Fields(_)
Fields(s) ==
  IF s = <<>> THEN <<>>
  ELSE IF IsSpace(s[1]) THEN Fields(Tail(s))
  ELSE LET stops == {i \in 1..Len(s) : IsSpace(s[i])}
           n == IF stops = {} THEN Len(s)
                ELSE (CHOOSE i \in stops : \A j \in stops : i <= j) - 1
       IN <<SubSeq(s, 1, n)>> \o Fields(SubSeq(s, n + 1, Len(s)))

Digits == {"0", "1", "2", "3", "4", "5", "6", "7", "8", "9"}

\* isWordChar: a letter, a digit or the underscore.
isWordChar(c) ==
  \/ c \in DOMAIN UpperOf
  \/ c \in DOMAIN LowerOf
  \/ c \in Digits
  \/ c = "_"

\* getWordAtCursor: the word around the cursor and where it starts; the word
\* runs back from the cursor and on past it while the characters are word
\* characters.
getWordAtCursor(sql, cursorPos) ==
  IF cursorPos <= 0 \/ cursorPos > Len(sql) THEN [word |-> <<>>, start |-> 0]
  ELSE LET breaksBefore == {i \in 0..(cursorPos - 1) : ~isWordChar(sql[i + 1])}
           start == IF breaksBefore = {} THEN 0
                    ELSE (CHOOSE i \in breaksBefore : \A j \in breaksBefore : j <= i) + 1
           breaksAfter == {i \in cursorPos..(Len(sql) - 1) : ~isWordChar(sql[i + 1])}
           end == IF breaksAfter = {} THEN Len(sql)
                  ELSE CHOOSE i \in breaksAfter : \A j \in breaksAfter : i <= j
       IN IF start >= end THEN [word |-> <<>>, start |-> start]
          ELSE [word |-> Slice(sql, start, end), start |-> start]


\* ------------------------------------------------------ words of the texts

Sp == <<" ">>
KwSelect == <<"S", "E", "L", "E", "C", "T">>
KwFrom == <<"F", "R", "O", "M">>
KwWhere == <<"W", "H", "E", "R", "E">>
KwJoin == <<"J", "O", "I", "N">>
KwOn == <<"O", "N">>
KwAnd == <<"A", "N", "D">>
KwOr == <<"O", "R">>
KwOrder == <<"O", "R", "D", "E", "R">>
KwGroup == <<"G", "R", "O", "U", "P">>
KwBy == <<"B", "Y">>
KwSet == <<"S", "E", "T">>

\* ------------------------------------------------------- analyzeContext

\* SQLCompletionType
SQLCompletionTypes == {"Keyword", "SchemaName", "TableName", "ColumnName", "Function"}

\* analyzeContext: the kind of completion for the text before the cursor,
\* with the schema when a qualified name is being written. The rules are
\* tried in this order: an unbroken word after the last "FROM "; a "." with
\* a character after it and a space before it; a last "SELECT " with neither
\* "FROM" nor " WHERE " after it; a "WHERE ".
analyzeContext(sql, cursorPos) ==
  LET before == Slice(sql, 0, cursorPos)
      fromMatch == LastIndex(before, KwFrom \o Sp)
      dotMatch == LastIndex(before, Dot)
      beforeDot == Slice(sql, 0, dotMatch)
      lastSpaceBeforeDot == LastIndex(beforeDot, Sp)
      selectMatch == LastIndex(before, KwSelect \o Sp)
      afterSelect == Slice(sql, selectMatch + 7, cursorPos)
      whereMatch == LastIndex(before, KwWhere \o Sp)
  IN IF fromMatch # -1 /\ ~Contains(Slice(sql, fromMatch + 5, cursorPos), Sp)
     THEN [completionType |-> "SchemaName", schema |-> <<>>, table |-> <<>>]
     ELSE IF dotMatch # -1 /\ dotMatch < cursorPos - 1 /\ lastSpaceBeforeDot # -1
     THEN [completionType |-> "TableName",
           schema |-> TrimSpace(Slice(beforeDot, lastSpaceBeforeDot, Len(beforeDot))),
           table |-> <<>>]
     ELSE IF /\ selectMatch # -1
             /\ ~Contains(afterSelect, KwFrom)
             /\ ~Contains(afterSelect, Sp \o KwWhere \o Sp)
     THEN [completionType |-> "ColumnName", schema |-> <<>>, table |-> <<>>]
     ELSE IF whereMatch # -1
     THEN [completionType |-> "ColumnName", schema |-> <<>>, table |-> <<>>]
     ELSE [completionType |-> "Keyword", schema |-> <<>>, table |-> <<>>]


\* ------------------------------------------------------ scores and order

\* fuzzyMatch: the characters of prefix occur in suggestion in this order;
\* i and j are the two indexes of the loop.
RECURSIVE fuzzyMatchFrom(_, _, _, _)
fuzzyMatchFrom(prefix, suggestion, i, j) ==
  IF i < Len(prefix) /\ j < Len(suggestion)
  THEN fuzzyMatchFrom(prefix, suggestion,
                      IF prefix[i + 1] = suggestion[j + 1] THEN i + 1 ELSE i, j + 1)
  ELSE i = Len(prefix)

fuzzyMatch(prefix, suggestion) ==
  IF Len(prefix) = 0 THEN TRUE ELSE fuzzyMatchFrom(prefix, suggestion, 0, 0)

\* A float64 score as the fraction <<numerator, denominator>>.
ScoreLess(a, b) == a[1] * b[2] < b[1] * a[2]

\* calculateScore: 0.5 for an empty prefix; for a prefix match
\* 1.0 - (1.0 - len(prefix)/len(suggestion)) * 0.1; 0.7 for a substring;
\* 0.6 for a subsequence; else 0.1. All case-insensitive.
calculateScore(prefix, suggestion) ==
  IF Len(prefix) = 0 THEN <<5, 10>>
  ELSE IF HasPrefix(ToLower(suggestion), ToLower(prefix))
  THEN <<9 * Len(suggestion) + Len(prefix), 10 * Len(suggestion)>>
  ELSE IF Contains(ToLower(suggestion), ToLower(prefix)) THEN <<7, 10>>
  ELSE IF fuzzyMatch(ToLower(prefix), ToLower(suggestion)) THEN <<6, 10>>
  ELSE <<1, 10>>

\* sortSuggestionsByScore, the inner loop: one pass over the indexes j to
\* last, swapping neighbours when the first has the lower score.
RECURSIVE BubblePass(_, _, _)
BubblePass(q, j, last) ==
  IF j > last THEN q
  ELSE BubblePass(IF ScoreLess(q[j].Score, q[j + 1].Score)
                  THEN [q EXCEPT ![j] = q[j + 1], ![j + 1] = q[j]]
                  ELSE q,
                  j + 1, last)

\* sortSuggestionsByScore, the outer loop from pass i on (bubble sort).
RECURSIVE BubbleFrom(_, _)
BubbleFrom(q, i) ==
  IF i >= Len(q) - 1 THEN q
  ELSE BubbleFrom(BubblePass(q, 1, Len(q) - i - 1), i + 1)

sortSuggestionsByScore(suggestions) == BubbleFrom(suggestions, 0)


\* ------------------------------------------- GetContextualSuggestions

\* SchemaCache.GetAllColumns: SELECT DISTINCT name FROM columns
GetAllColumns(db) == SetToSeq({r.name : r \in db.columns})

\* SchemaCache.GetAllTables: SELECT DISTINCT name FROM tables
GetAllTables(db) == SetToSeq({r.name : r \in db.tables})

\* SchemaCache.GetAllSchemaQualifiedTables: schema_name + "." + name per row
GetAllSchemaQualifiedTables(db) ==
  LET rows == SetToSeq(db.tables)
  IN [k \in 1..Len(rows) |-> rows[k].schema_name \o Dot \o rows[k].name]

\* The functions GetContextualSuggestions adds after SELECT, of which two are
\* kept here.
SelectFunctions == << <<"S", "U", "M">>, <<"C", "A", "S", "T">> >>

\* "Filter by prefix if there is one": the strings that start with the word,
\* case-insensitively; all of them when the word is empty.
FilterByPrefix(strs, word) ==
  LET Starts(x) == HasPrefix(ToLower(x), ToLower(word))
  IN IF word = <<>> THEN strs ELSE SelectSeq(strs, Starts)

\* GetContextualSuggestions: every list of strings the call can return, by
\* the last white-space delimited token before the cursor. The cache's
\* queries succeed.
GetContextualSuggestions(query, cursorPos, db, t) ==
  LET queryBeforeCursor == IF cursorPos < Len(query) THEN Slice(query, 0, cursorPos)
                                                     ELSE query
      tokens == Fields(queryBeforeCursor)
      lastTokenUpper == ToUpper(tokens[Len(tokens)])
      word == getWordAtCursor(query, cursorPos).word
      columns == GetAllColumns(db)
      tables == GetAllTables(db) \o GetAllSchemaQualifiedTables(db)
  IN IF Len(tokens) = 0 THEN {<<>>}
     ELSE IF lastTokenUpper = KwSelect
     THEN {FilterByPrefix(columns \o SelectFunctions, word)}
     ELSE IF lastTokenUpper = KwFrom
     THEN {FilterByPrefix(tables \o SetToSeq(GetSchemas(db)), word)}
     ELSE IF lastTokenUpper = KwJoin
     THEN {FilterByPrefix(tables, word)}
     ELSE IF lastTokenUpper \in {KwWhere, KwAnd, KwOr, KwOn}
     THEN {FilterByPrefix(columns, word)}
     ELSE IF lastTokenUpper \in {KwOrder, KwGroup}
     THEN {<<KwBy>>}
     ELSE IF /\ lastTokenUpper = KwBy
             /\ Len(tokens) >= 2
             /\ ToUpper(tokens[Len(tokens) - 1]) \in {KwOrder, KwGroup}
     THEN {FilterByPrefix(columns, word)}
     ELSE GetSuggestions(t, word, 50)


\* ------------------------------------------------ getSuggestionsByContext

\* A Suggestion (DetailText, which is only displayed, is left out).
Suggestion(text, type, prefix, schema, table) ==
  [Text |-> text, Type |-> type, Score |-> calculateScore(prefix, text),
   Schema |-> schema, Table |-> table]

\* The lists of a list, appended one after the other.
RECURSIVE Flatten(_)
Flatten(qs) == IF qs = <<>> THEN <<>> ELSE Head(qs) \o Flatten(Tail(qs))

\* The loop of the get...Suggestions functions: a Suggestion for each name
\* that starts with the prefix, case-insensitively.
PrefixSuggestions(names, type, prefix, schema, table) ==
  LET Starts(x) == HasPrefix(ToLower(x), ToLower(prefix))
      kept == SelectSeq(names, Starts)
  IN [k \in 1..Len(kept) |-> Suggestion(kept[k], type, prefix, schema, table)]

getSchemaSuggestions(prefix) ==
  PrefixSuggestions(SetToSeq(GetSchemas(cacheDb)), "SchemaName", prefix, <<>>, <<>>)

getTableSuggestions(prefix, schema) ==
  PrefixSuggestions(SetToSeq(GetTables(cacheDb, schema)), "TableName", prefix,
                    schema, <<>>)

getAllTableSuggestions(prefix) ==
  LET schemas == SetToSeq(GetSchemas(cacheDb))
  IN Flatten([k \in 1..Len(schemas) |-> getTableSuggestions(prefix, schemas[k])])

getColumnSuggestions(prefix, schema, table) ==
  LET cols == SetToSeq(GetColumns(cacheDb, schema, table))
  IN PrefixSuggestions([k \in 1..Len(cols) |-> cols[k].Name], "ColumnName", prefix,
                       schema, table)

getAllColumnSuggestionsForSchema(prefix, schema) ==
  LET tables == SetToSeq(GetTables(cacheDb, schema))
  IN Flatten([k \in 1..Len(tables) |-> getColumnSuggestions(prefix, schema, tables[k])])

getAllColumnSuggestions(prefix) ==
  LET schemas == SetToSeq(GetSchemas(cacheDb))
  IN Flatten([k \in 1..Len(schemas) |->
                getAllColumnSuggestionsForSchema(prefix, schemas[k])])

\* getFunctionSuggestions, with the two functions kept here.
getFunctionSuggestions(prefix) ==
  PrefixSuggestions(SelectFunctions, "Function", prefix, <<>>, <<>>)

\* getSuggestionsByContext: every list it can return. The keyword matches
\* come first, then the candidates of the context's kind.
getSuggestionsByContext(prefix, ctx) ==
  LET specific ==
        CASE ctx.completionType = "SchemaName" -> getSchemaSuggestions(prefix)
          [] ctx.completionType = "TableName" ->
               IF ctx.schema # <<>> THEN getTableSuggestions(prefix, ctx.schema)
               ELSE getAllTableSuggestions(prefix)
          [] ctx.completionType = "ColumnName" ->
               IF ctx.table # <<>>
               THEN getColumnSuggestions(prefix, ctx.schema, ctx.table)
               ELSE IF ctx.schema # <<>>
               THEN getAllColumnSuggestionsForSchema(prefix, ctx.schema)
               ELSE getAllColumnSuggestions(prefix)
          [] ctx.completionType = "Function" -> getFunctionSuggestions(prefix)
          [] OTHER -> <<>>
  IN {[k \in 1..Len(words) |-> Suggestion(words[k], "Keyword", prefix, <<>>, <<>>)]
        \o specific : words \in getKeywordSuggestions(prefix)}

\* ---------------------------------------------------------- GetCompletions

\* GetCompletions: "if len(suggestions) > ac.maxSuggestions { suggestions =
\* suggestions[:ac.maxSuggestions] }". Slicing to a negative length panics.
CutToMax(suggestions, max) ==
  IF Len(suggestions) > max
  THEN IF max < 0 THEN [failed |-> TRUE, list |-> <<>>]
       ELSE [failed |-> FALSE, list |-> SubSeq(suggestions, 1, max)]
  ELSE [failed |-> FALSE, list |-> suggestions]

\* AutocompleteService.GetCompletions: every outcome of the call, a list of
\* suggestions or a panic.
\* GetCompletions: "if cursorPos < 0 { cursorPos = 0 } else if cursorPos >
\* len(sql) { cursorPos = len(sql) }".
ClampCursor(sql, cursorPos) ==
  IF cursorPos < 0 THEN 0
  ELSE IF cursorPos > Len(sql) THEN Len(sql) ELSE cursorPos

GetCompletions(sql, cursorPos0) ==
  LET cursorPos == ClampCursor(sql, cursorPos0)
      word == getWordAtCursor(sql, cursorPos).word
      ctx == analyzeContext(sql, cursorPos)
      Typed(texts) ==
        [k \in 1..Len(texts) |->
           Suggestion(texts[k], ctx.completionType, word, <<>>, <<>>)]
      lists ==
        UNION {IF Len(texts) > 0 THEN {Typed(texts)}
               ELSE getSuggestionsByContext(word, ctx) :
                 texts \in GetContextualSuggestions(sql, cursorPos, cacheDb, cacheTrie)}
  IN {CutToMax(sortSuggestionsByScore(q), maxSuggestions) : q \in lists}


\* ------------------------------------------- the service, call by call

\* The BoostSuggestion calls of a run, and the maxima given to
\* SetMaxSuggestions.
MaxBoosts == 1
Maxima == {-1, 1, DefaultMaxSuggestions}

Sales == <<"s", "a", "l", "e", "s">>
Orders == <<"o", "r", "d", "e", "r", "s">>
Total == <<"t", "o", "t", "a", "l">>

\* Schema sales with its table orders and the columns id and total, as
\* RefreshSchema builds it.
SalesMetadata ==
  [Name |-> Sales, LastUpdate |-> 1,
   Tables |-> <<[Name |-> Orders, Schema |-> Sales,
                 Columns |-> <<[Name |-> Id, DataType |-> "bigint",
                                Table |-> Orders, Schema |-> Sales],
                               [Name |-> Total, DataType |-> "varchar",
                                Table |-> Orders, Schema |-> Sales]>>]>>]

\* The texts typed into the input field.
SelectA == KwSelect \o Sp \o <<"a">> \o Sp \o KwFrom \o Sp
TextFromDot == SelectA \o Sales \o Dot
TextWhere == SelectA \o Sales \o Dot \o Orders \o Sp \o KwWhere \o Sp
TextJoinOn == SelectA \o <<"t">> \o Sp \o KwJoin \o Sp \o <<"u">> \o Sp \o KwOn \o Sp
TextJoinDot == SelectA \o <<"t">> \o Sp \o KwJoin \o Sp \o Sales \o Dot \o <<"o">>
TextOrder == SelectA \o <<"t">> \o Sp \o KwOrder \o Sp
TextOrderBy == TextOrder \o KwBy \o Sp
TextGroupBy == SelectA \o <<"t">> \o Sp \o KwGroup \o Sp \o KwBy \o Sp
TextJoin == SelectA \o <<"t">> \o Sp \o KwJoin \o Sp
TextFrom == SelectA
TextSelect == KwSelect \o Sp
TextOrd == KwSelect \o Sp \o KwFrom \o Sp \o Sales \o Dot \o <<"o", "r", "d">>
TextS == KwSelect \o Sp \o <<"s">>
TextOta == KwSelect \o Sp \o <<"o", "t", "a">>
TextTl == KwSelect \o Sp \o <<"t", "l">>
TextTo == KwSelect \o Sp \o <<"t", "o">>
TextSe == <<"s", "e">>
Texts ==
  {TextFromDot, TextWhere, TextJoinOn, TextJoinDot, TextOrder, TextOrderBy,
   TextGroupBy, TextJoin, TextFrom, TextSelect, TextOrd, TextS, TextOta, TextTl,
   TextTo, TextSe, <<>>}

\* The cursor offsets asked for a text: before it, inside it, at its end and
\* past it.
Cursors(sql) == {-1, 7, Len(sql), Len(sql) + 1}

\* The suggestions handed to BoostSuggestion.
BoostTexts == {KwSelect, Sales}

\* A trie after GetSuggestions has listed words of it, with every listed word
\* boosted.
BoostShown(t, words) ==
  [x \in DOMAIN t |-> IF x \in {ToLower(words[k]) : k \in 1..Len(words)}
                      THEN t[x] + 1 ELSE t[x]]

\* A trie after GetSuggestions has listed words of it: the walk only reads,
\* under the read lock.
Shown(t, words) == t

\* BoostSuggestion that boosts the text in both tries.
BoostBoth(kt, ct, text, type) ==
  [keywordTrie |-> BoostWord(kt, text, 5).trie,
   cacheTrie |-> BoostWord(ct, text, 10).trie]

\* AutocompleteService.BoostSuggestion: the two tries after the call.
BoostSuggestion(kt, ct, text, type) ==
  IF type = "Keyword"
  THEN [keywordTrie |-> BoostWord(kt, text, 5).trie, cacheTrie |-> ct]
  ELSE [keywordTrie |-> kt, cacheTrie |-> BoostWord(ct, text, 10).trie]

ComplFrame ==
  UNCHANGED <<envVars, siVars, procVars, histVars, budgetVars, svcStart,
              unitVars, closeVars, lateVars>>

\* The introspector stores schema sales in the cache.
StoreSales ==
  /\ cacheDb = EmptyDb
  /\ \E r \in {StoreSchema(cacheDb, cacheTrie, cacheLastRefresh, SalesMetadata,
                           0, clock)} :
       /\ cacheDb' = r.db
       /\ cacheTrie' = r.trie
       /\ cacheLastRefresh' = r.lastRefresh
  /\ compl' = [NoCompl EXCEPT !.op = "store", !.boosts = compl.boosts]
  /\ UNCHANGED <<keywordTrie, maxSuggestions>>
  /\ ComplFrame

\* AutocompleteService.SetMaxSuggestions
SetMaxSuggestions(max) ==
  /\ maxSuggestions' = max
  /\ compl' = [NoCompl EXCEPT !.op = "max", !.boosts = compl.boosts]
  /\ UNCHANGED <<cacheVars, keywordTrie>>
  /\ ComplFrame

\* A call of AutocompleteService.GetCompletions, as AutocompleteHandler.Update
\* makes it for each change of the text.
CallGetCompletions(sql, cursorPos) ==
  /\ compl.op # "get"
  /\ \E r \in GetCompletions(sql, cursorPos) :
       /\ compl' = [NoCompl EXCEPT !.op = "get", !.sql = sql,
                                   !.cursorPos = ClampCursor(sql, cursorPos),
                                   !.ctx = analyzeContext(sql, ClampCursor(sql, cursorPos)),
                                   !.failed = r.failed,
                                   !.out = r.list, !.boosts = compl.boosts]
       /\ keywordTrie' =
            Shown(keywordTrie, [k \in 1..Len(r.list) |-> r.list[k].Text])
       /\ cacheTrie' =
            Shown(cacheTrie, [k \in 1..Len(r.list) |-> r.list[k].Text])
  /\ UNCHANGED <<cacheDb, cacheLastRefresh, maxSuggestions>>
  /\ ComplFrame

\* A call of AutocompleteService.BoostSuggestion, as acceptSuggestion makes it
\* for the suggestion the user takes.
CallBoostSuggestion(text, type) ==
  /\ compl.boosts < MaxBoosts
  /\ \E r \in {BoostSuggestion(keywordTrie, cacheTrie, text, type)} :
       /\ keywordTrie' = r.keywordTrie
       /\ cacheTrie' = r.cacheTrie
  /\ compl' = [NoCompl EXCEPT !.op = "boost", !.text = text, !.type = type,
                              !.boosts = compl.boosts + 1]
  /\ UNCHANGED <<cacheDb, cacheLastRefresh, maxSuggestions>>
  /\ ComplFrame

\* The service as NewAutocompleteService leaves it: an empty cache and the
\* keywords in the keyword trie with score 1.
ComplInit ==
  /\ InitCommon
  /\ refreshesLeft = 0
  /\ faultsLeft = 0
  /\ live = SmallLive
  /\ cacheDb = EmptyDb
  /\ cacheTrie = NewTrie
  /\ cacheLastRefresh = 0
  /\ keywordTrie = InsertAll(NewTrie, [i \in 1..Len(CommonSQLKeywords) |->
                                         <<CommonSQLKeywords[i], 1>>])
  /\ svcStart = "starting"
  /\ NoUnit

ComplNext ==
  \/ StoreSales
  \/ \E max \in Maxima : SetMaxSuggestions(max)
  \/ \E sql \in Texts : \E cursorPos \in Cursors(sql) :
       CallGetCompletions(sql, cursorPos)
  \/ \E text \in BoostTexts : \E type \in SQLCompletionTypes :
       CallBoostSuggestion(text, type)

ComplSpec == ComplInit /\ [][ComplNext]_vars


\* ------------------------------------------------ claims on completions

\* The text before the cursor of the last GetCompletions call, its tokens in
\* upper case, and the word at the cursor.
TextBefore == Slice(compl.sql, 0, compl.cursorPos)
TokensBefore ==
  LET f == Fields(TextBefore) IN [k \in 1..Len(f) |-> ToUpper(f[k])]
LastTokenIn(S) == TokensBefore # <<>> /\ TokensBefore[Len(TokensBefore)] \in S
WordAtCursor == getWordAtCursor(compl.sql, compl.cursorPos)
NothingTyped == compl.cursorPos > 0 /\ compl.sql[compl.cursorPos] = " "

\* The qualifier of the word at the cursor: the word that ends at the '.'
\* right before it, empty when there is no such '.'.
Qualifier ==
  LET start == IF WordAtCursor.word = <<>> THEN compl.cursorPos
               ELSE WordAtCursor.start
  IN IF start >= 2 /\ compl.sql[start] = "." /\ isWordChar(compl.sql[start - 1])
     THEN getWordAtCursor(compl.sql, start - 1).word
     ELSE <<>>

\* C21: whenever a '.' immediately precedes the word at the cursor (the word
\* may still be empty) and a qualifier precedes that '.', the classification
\* is Table with the qualifier as schema, also when the qualified name
\* directly follows FROM.
C21_DotGivesTable ==
  (compl.op = "get" /\ Qualifier # <<>>) =>
    /\ compl.ctx.completionType = "TableName"
    /\ compl.ctx.schema = Qualifier

\* C22: whenever the last keyword before the cursor is WHERE, AND, OR or ON
\* and nothing follows it yet, the classification is Column, whatever the text
\* before it.
C22_WhereGivesColumn ==
  (compl.op = "get" /\ NothingTyped /\ LastTokenIn({KwWhere, KwAnd, KwOr, KwOn})) =>
    compl.ctx.completionType = "ColumnName"

\* The names of the columns in the cache.
CachedColumns == {r.name : r \in cacheDb.columns}

\* C23: after ORDER or GROUP as the last token the only completion is BY, of
\* category Keyword; after the two tokens ORDER BY or GROUP BY the completions
\* are the cache's column names, of category Column (stated for a cache that
\* holds columns).
C23_OrderGroupBy ==
  /\ (compl.op = "get" /\ ~compl.failed /\ NothingTyped
        /\ LastTokenIn({KwOrder, KwGroup})) =>
       /\ Len(compl.out) = 1
       /\ compl.out[1].Text = KwBy
       /\ compl.out[1].Type = "Keyword"
  /\ (compl.op = "get" /\ ~compl.failed /\ NothingTyped /\ LastTokenIn({KwBy})
        /\ CachedColumns # {}
        /\ Len(TokensBefore) >= 2
        /\ TokensBefore[Len(TokensBefore) - 1] \in {KwOrder, KwGroup}) =>
       \A k \in 1..Len(compl.out) :
         /\ compl.out[k].Text \in CachedColumns
         /\ compl.out[k].Type = "ColumnName"

\* C24: whenever the last clause keyword before the cursor is FROM or JOIN
\* and no token follows it yet, the classification is Schema, for JOIN as for
\* FROM; and "SELECT " with the cursor at offset 7 is classified Column.
C24_FromJoinGiveSchema ==
  /\ (compl.op = "get" /\ NothingTyped /\ LastTokenIn({KwFrom, KwJoin})) =>
       compl.ctx.completionType = "SchemaName"
  /\ (compl.op = "get" /\ compl.sql = TextSelect /\ compl.cursorPos = 7) =>
       compl.ctx.completionType = "ColumnName"


\* The suggestions of the last call that have the given category.
OfType(type) ==
  LET Is(x) == x.Type = type IN SelectSeq(compl.out, Is)

\* C25: with schema sales holding table orders in the cache,
\* GetCompletions("SELECT FROM sales.ord", 21) returns orders first among the
\* suggestions of category Table, with schema sales; and every Table
\* suggestion for a word written after "<schema>." is a table of that schema
\* and carries it.
C25_TablesOfTheQualifier ==
  /\ (compl.op = "get" /\ ~compl.failed /\ maxSuggestions >= 1
        /\ compl.sql = TextOrd /\ compl.cursorPos = 21
        /\ Orders \in GetTables(cacheDb, Sales)) =>
       /\ OfType("TableName") # <<>>
       /\ OfType("TableName")[1].Text = Orders
       /\ OfType("TableName")[1].Schema = Sales
  /\ (compl.op = "get" /\ ~compl.failed /\ Qualifier # <<>>) =>
       \A k \in 1..Len(compl.out) :
         compl.out[k].Type = "TableName" =>
           /\ compl.out[k].Schema = Qualifier
           /\ compl.out[k].Text \in GetTables(cacheDb, Qualifier)

\* The words of the keyword trie that start with the word at the cursor.
KeywordMatches ==
  {w \in Words(keywordTrie) : StartsWith(w, ToLower(WordAtCursor.word))}

\* C26: every GetCompletions result holds the keyword trie's matches for the
\* word at the cursor, in every context (stated for a word that is not empty
\* and for results that the maximum did not cut; the keyword trie holds fewer
\* than ten words).
C26_KeywordsAlwaysIncluded ==
  (compl.op = "get" /\ ~compl.failed /\ Len(compl.out) < maxSuggestions
     /\ WordAtCursor.word # <<>>) =>
    \A w \in KeywordMatches :
      \E k \in 1..Len(compl.out) :
        compl.out[k].Text = w /\ compl.out[k].Type = "Keyword"

\* C27: for every text, cursor offset and maximum set through
\* SetMaxSuggestions, GetCompletions returns without failing, in
\* non-increasing order of score, at most the maximum number of suggestions.
C27_SortedAndCapped ==
  compl.op = "get" =>
    /\ ~compl.failed
    /\ \A k \in 1..(Len(compl.out) - 1) :
         ~ScoreLess(compl.out[k].Score, compl.out[k + 1].Score)
    /\ Len(compl.out) <= maxSuggestions

\* The word matches the name case-insensitively as a prefix, as a substring
\* or as an in-order subsequence.
MatchesWord(word, name) ==
  \/ HasPrefix(ToLower(name), ToLower(word))
  \/ Contains(ToLower(name), ToLower(word))
  \/ fuzzyMatch(ToLower(word), ToLower(name))

\* C28: a candidate is in the GetCompletions result exactly when its name
\* matches the word at the cursor as a prefix, a substring or a subsequence
\* (stated for the cache's columns as candidates in a Column context, with a
\* word typed and a result the maximum did not cut).
C28_SubstringAndFuzzyIncluded ==
  (compl.op = "get" /\ ~compl.failed /\ Len(compl.out) < maxSuggestions
     /\ compl.ctx.completionType = "ColumnName" /\ WordAtCursor.word # <<>>) =>
    \A c \in CachedColumns :
      (\E k \in 1..Len(compl.out) : compl.out[k].Text = c)
        <=> MatchesWord(WordAtCursor.word, c)

\* Some word of the trie has another score in the next state.
ScoreChanged(t, next) == \E w \in Words(t) : next[w] # t[w]

\* C29: GetCompletions leaves the keyword trie, the cache's trie, the cached
\* metadata and the last-refresh time unchanged (and so does
\* SetMaxSuggestions); a step that changes a score of either trie is a
\* BoostSuggestion call.
C29_GetCompletionsReadOnly ==
  [][/\ compl'.op \in {"get", "max"} =>
          UNCHANGED <<keywordTrie, cacheTrie, cacheDb, cacheLastRefresh>>
     /\ (ScoreChanged(keywordTrie, keywordTrie') \/ ScoreChanged(cacheTrie, cacheTrie'))
          => compl'.op = "boost"]_vars

\* A GetCompletions call that returned suggestions from the stored cache,
\* after a BoostSuggestion call had changed a score.
C29_Witness ==
  /\ compl.op = "get"
  /\ compl.out # <<>>
  /\ compl.boosts = 1
  /\ cacheDb # EmptyDb
  /\ cacheTrie[Sales] = 110

\* The trie after adding amount to the word when the trie holds it, and the
\* same trie otherwise.
Boosted(t, text, amount) ==
  IF ToLower(text) \in Words(t)
  THEN [t EXCEPT ![ToLower(text)] = @ + amount]
  ELSE t

\* C30: BoostSuggestion(s) changes one trie only: a Keyword suggestion adds 5
\* to s.Text in the keyword trie and leaves the cache's trie as it is; a
\* Schema, Table, Column or Function suggestion adds 10 to s.Text in the
\* cache's trie and leaves the keyword trie as it is; a text the targeted
\* trie does not hold changes nothing.
C30_BoostOneIndex ==
  [][compl'.op = "boost" /\ compl'.boosts = compl.boosts + 1 =>
       IF compl'.type = "Keyword"
       THEN /\ keywordTrie' = Boosted(keywordTrie, compl'.text, 5)
            /\ cacheTrie' = cacheTrie
       ELSE /\ cacheTrie' = Boosted(cacheTrie, compl'.text, 10)
            /\ keywordTrie' = keywordTrie]_vars

\* BoostSuggestion has boosted schema sales in the cache's trie.
C30_Witness ==
  /\ compl.op = "boost"
  /\ compl.type = "SchemaName"
  /\ compl.text = Sales
  /\ Sales \in Words(cacheTrie)
  /\ cacheTrie[Sales] = 110
  /\ keywordTrie[ToLower(KwSelect)] = 1


\* ------------------------------------------ who uses the cache's trie

\* The goroutines: the background refresh in StoreSchema, a GetCompletions
\* call in SchemaCache.GetSuggestions, and the BoostSuggestion call that
\* acceptSuggestion starts with "go".
Storer == "storer"
Reader == "reader"
Booster == "booster"
Threads == {Storer, Reader, Booster}

\* The calls each goroutine makes in a run.
MaxRuns == 1

\* What StoreSchema inserts for schema hr with its table ord.
HrInserts ==
  TrieInsertsAll(Stmts([Name |-> Hr, LastUpdate |-> 0,
                        Tables |-> <<[Name |-> Ord, Schema |-> Hr,
                                      Columns |-> <<>>]>>]))

\* The texts BoostSuggestion is called with, as schema objects.
BoostedTexts == {Hr, Usr}

\* A sync.RWMutex: its writer, or "none", and its readers.
FreeLock == [writer |-> "none", readers |-> {}]
CanLock(l) == l.writer = "none" /\ l.readers = {}
CanRLock(l) == l.writer = "none"

AccessStart ==
  [pc |-> [t \in Threads |-> "idle"],
   runs |-> [t \in Threads |-> 0],
   scLock |-> FreeLock,      \* SchemaCache.lock
   acMu |-> FreeLock,        \* AutocompleteService.mu
   todo |-> <<>>,            \* StoreSchema: the inserts still to make
   text |-> <<>>,            \* BoostSuggestion: suggestion.Text
   read |-> 0,               \* BoostWord: the score read by "node.Score +="
   fatal |-> FALSE]          \* the runtime has stopped the program

AccessFrame ==
  UNCHANGED <<envVars, cacheDb, cacheLastRefresh, siVars, procVars, histVars,
              budgetVars, svcVars, unitVars, closeVars, complVars, browse, search,
              handler>>

\* StoreSchema: sc.lock.Lock()
St_Lock ==
  /\ ~access.fatal
  /\ access.pc[Storer] = "idle"
  /\ access.runs[Storer] < MaxRuns
  /\ CanLock(access.scLock)
  /\ access' = [access EXCEPT !.pc[Storer] = "locked", !.runs[Storer] = @ + 1,
                              !.scLock.writer = Storer, !.todo = HrInserts]
  /\ UNCHANGED cacheTrie
  /\ AccessFrame

\* StoreSchema: a trie.Insert begins to walk and extend the nodes.
St_InsertBegin ==
  /\ ~access.fatal
  /\ access.pc[Storer] = "locked"
  /\ access.todo # <<>>
  /\ access' = [access EXCEPT !.pc[Storer] = "inserting"]
  /\ UNCHANGED cacheTrie
  /\ AccessFrame

\* StoreSchema: the trie.Insert ends, "node.Score += score" done.
St_InsertEnd ==
  /\ ~access.fatal
  /\ access.pc[Storer] = "inserting"
  /\ cacheTrie' = Insert(cacheTrie, Head(access.todo)[1], Head(access.todo)[2])
  /\ access' = [access EXCEPT !.pc[Storer] = "locked", !.todo = Tail(@)]
  /\ AccessFrame

\* StoreSchema: the deferred sc.lock.Unlock()
St_Unlock ==
  /\ ~access.fatal
  /\ access.pc[Storer] = "locked"
  /\ access.todo = <<>>
  /\ access' = [access EXCEPT !.pc[Storer] = "idle", !.scLock.writer = "none"]
  /\ UNCHANGED cacheTrie
  /\ AccessFrame

\* GetCompletions: ac.mu.RLock()
Rd_ServiceRLock ==
  /\ ~access.fatal
  /\ access.pc[Reader] = "idle"
  /\ access.runs[Reader] < MaxRuns
  /\ CanRLock(access.acMu)
  /\ access' = [access EXCEPT !.pc[Reader] = "completing", !.runs[Reader] = @ + 1,
                              !.acMu.readers = @ \cup {Reader}]
  /\ UNCHANGED cacheTrie
  /\ AccessFrame

\* SchemaCache.GetSuggestions: sc.lock.RLock(), then the trie is walked.
Rd_CacheRLock ==
  /\ ~access.fatal
  /\ access.pc[Reader] = "completing"
  /\ CanRLock(access.scLock)
  /\ access' = [access EXCEPT !.pc[Reader] = "traversing",
                              !.scLock.readers = @ \cup {Reader}]
  /\ UNCHANGED cacheTrie
  /\ AccessFrame

\* The walk is over: both deferred RUnlock calls.
Rd_Done ==
  /\ ~access.fatal
  /\ access.pc[Reader] = "traversing"
  /\ access' = [access EXCEPT !.pc[Reader] = "idle",
                              !.scLock.readers = @ \ {Reader},
                              !.acMu.readers = @ \ {Reader}]
  /\ UNCHANGED cacheTrie
  /\ AccessFrame

\* BoostSuggestion: ac.mu.Lock()
Bo_ServiceLock(text) ==
  /\ ~access.fatal
  /\ access.pc[Booster] = "idle"
  /\ access.runs[Booster] < MaxRuns
  /\ CanLock(access.acMu)
  /\ access' = [access EXCEPT !.pc[Booster] = "locked", !.runs[Booster] = @ + 1,
                              !.acMu.writer = Booster, !.text = text]
  /\ UNCHANGED cacheTrie
  /\ AccessFrame

\* SchemaCache.BoostWord calls Trie.BoostWord without taking sc.lock, so the
\* step needs no lock. findNode reads the children maps and the node, and
\* "node.Score +=" reads the score. A map read while an Insert writes the maps
\* is a data race: the runtime may stop the program (concurrent map read and
\* map write) or let the read go on.
Bo_Find ==
  /\ ~access.fatal
  /\ access.pc[Booster] = "locked"
  /\ \E fatal \in {FALSE, access.pc[Storer] = "inserting"} :
       access' = [access EXCEPT
                    !.fatal = fatal,
                    !.pc[Booster] = IF ToLower(access.text) \in Words(cacheTrie)
                                    THEN "found" ELSE "done",
                    !.read = IF ToLower(access.text) \in Words(cacheTrie)
                             THEN cacheTrie[ToLower(access.text)] ELSE 0]
  /\ UNCHANGED cacheTrie
  /\ AccessFrame

\* Trie.BoostWord: "node.Score +=" writes the score it read plus the boost.
Bo_Write ==
  /\ ~access.fatal
  /\ access.pc[Booster] = "found"
  /\ cacheTrie' = [cacheTrie EXCEPT ![ToLower(access.text)] = access.read + 10]
  /\ access' = [access EXCEPT !.pc[Booster] = "done"]
  /\ AccessFrame

\* BoostSuggestion: the deferred ac.mu.Unlock()
Bo_Unlock ==
  /\ ~access.fatal
  /\ access.pc[Booster] = "done"
  /\ access' = [access EXCEPT !.pc[Booster] = "idle", !.acMu.writer = "none"]
  /\ UNCHANGED cacheTrie
  /\ AccessFrame

\* The cache after a first refresh has stored schema hr; nobody is running.
AccessInit ==
  /\ live = SmallLive
  /\ dbChanges = 0
  /\ cacheDb = PersistedDb
  /\ cacheTrie = InsertAll(NewTrie, HrInserts)
  /\ cacheLastRefresh = 1
  /\ refreshInterval = DefaultInterval
  /\ siLastRefresh = 0
  /\ stopRefresh = 1
  /\ backgroundRefresh = FALSE
  /\ mu = 0
  /\ pc = [p \in Procs |-> IF p \in Callers THEN "idle" ELSE "none"]
  /\ frame = [p \in Procs |-> IF p \in Callers THEN "manual" ELSE "loop"]
  /\ todo = [p \in Procs |-> <<>>]
  /\ arg = [p \in Procs |-> <<>>]
  /\ ticker = [p \in Procs |-> 0]
  /\ loopCh = [p \in Procs |-> 0]
  /\ pass = NoPass
  /\ storeLog = NoStore
  /\ clock = 1
  /\ cacheLock = 0
  /\ cacheFile = NoFile
  /\ maxSuggestions = DefaultMaxSuggestions
  /\ compl = NoCompl
  /\ access = AccessStart
  /\ browse = NoBrowse
  /\ search = NoSearch
  /\ handler = NoHandler
  /\ refreshesLeft = 0
  /\ faultsLeft = 0
  /\ keywordTrie = NewTrie
  /\ svcStart = "ok"
  /\ NoUnit

AccessNext ==
  \/ St_Lock
  \/ St_InsertBegin
  \/ St_InsertEnd
  \/ St_Unlock
  \/ Rd_ServiceRLock
  \/ Rd_CacheRLock
  \/ Rd_Done
  \/ \E text \in BoostedTexts : Bo_ServiceLock(text)
  \/ Bo_Find
  \/ Bo_Write
  \/ Bo_Unlock

AccessSpec == AccessInit /\ [][AccessNext]_vars

\* C31: the cache's trie is read and written under the cache's own lock only:
\* BoostWord is never inside the trie while StoreSchema is between its Lock
\* and Unlock or while GetSuggestions is walking the trie.
C31_BoostExcludedByCacheLock ==
  access.pc[Booster] = "found" =>
    /\ access.pc[Storer] = "idle"
    /\ access.pc[Reader] # "traversing"


\* ------------------------------------- the schema browser's cache (schema)

\* "b.cache.Update(b.tree, 5*time.Minute)": the time to live, in minutes.
Ttl == 5
\* The minutes a run lasts and the Load calls made in it.
MaxTime == 7
MaxLoads == 4

\* What Trino holds: one catalog, one schema, one table with one column.
Cat == "hive"
Sch == "sales"
Tbl == "orders"
Col == [Name |-> "id", Type |-> "bigint", Nullable |-> FALSE]

\* The names in the order sort.Strings gives them.
BrowserNames == <<"hive", "orders", "sales">>

\* sort.Strings of the keys of a map.
SortStrings(S) ==
  LET In(x) == x \in S IN SelectSeq(BrowserNames, In)

\* NewSchemaTree: four empty maps. A map is a function here; a missing key is
\* a value outside its domain.
NewSchemaTree ==
  [Catalogs |-> {}, Schemas |-> <<>>, Tables |-> <<>>, Columns |-> <<>>]

\* m[k] = v of a Go map.
MapSet(m, k, v) == [x \in DOMAIN m \cup {k} |-> IF x = k THEN v ELSE m[x]]

\* The lists a Load reads from Trino and the lists a getter returns.
Kinds == {"catalogs", "schemas", "tables", "columns"}

\* nil, and a value that is not nil.
Nil == [nil |-> TRUE, val |-> <<>>]
NotNil(v) == [nil |-> FALSE, val |-> v]

\* The tree sc.Data points to: the tree NewSchemaCache made, or the browser's
\* own tree once Update(b.tree, ...) has stored that pointer.
Data(b) == IF b.data = "tree" THEN b.tree ELSE NewSchemaTree

\* time.Now().Before(sc.Expiry)
Before_Expiry(b) == b.now < b.expiry

\* time.Now().After(sc.Expiry)
After_Expiry(b) == b.now > b.expiry

\* SchemaCache.Get
Get(b) == IF Before_Expiry(b) THEN NotNil(Data(b)) ELSE Nil

\* SchemaCache.HasCatalog
HasCatalog(b, catalog) == catalog \in Data(b).Catalogs /\ Before_Expiry(b)

\* SchemaCache.HasSchema
HasSchema(b, catalog, schema) ==
  IF catalog \in DOMAIN Data(b).Schemas
  THEN schema \in Data(b).Schemas[catalog] /\ Before_Expiry(b)
  ELSE FALSE

\* SchemaCache.HasTable
HasTable(b, catalog, schema, table) ==
  IF <<catalog, schema>> \in DOMAIN Data(b).Tables
  THEN table \in Data(b).Tables[<<catalog, schema>>] /\ Before_Expiry(b)
  ELSE FALSE

\* SchemaCache.GetCatalogs
GetCatalogs(b) ==
  IF After_Expiry(b) THEN Nil ELSE NotNil(SortStrings(Data(b).Catalogs))

\* SchemaCache.GetSchemas (named after its receiver, as the autocomplete
\* cache has a GetSchemas too)
SchemaCache_GetSchemas(b, catalog) ==
  IF After_Expiry(b) THEN Nil
  ELSE IF catalog \in DOMAIN Data(b).Schemas
  THEN NotNil(SortStrings(Data(b).Schemas[catalog]))
  ELSE Nil

\* SchemaCache.GetTables
SchemaCache_GetTables(b, catalog, schema) ==
  IF After_Expiry(b) THEN Nil
  ELSE IF <<catalog, schema>> \in DOMAIN Data(b).Tables
  THEN NotNil(SortStrings(Data(b).Tables[<<catalog, schema>>]))
  ELSE Nil

\* SchemaCache.GetColumns: "return tables[table]", the slice the tree holds,
\* nil for a missing key.
SchemaCache_GetColumns(b, catalog, schema, table) ==
  IF After_Expiry(b) THEN Nil
  ELSE IF <<catalog, schema, table>> \in DOMAIN Data(b).Columns
  THEN NotNil(Data(b).Columns[<<catalog, schema, table>>])
  ELSE Nil

\* The getter a Load of each kind asks first, and the search field too.
Cached(b, kind) ==
  CASE kind = "catalogs" -> GetCatalogs(b)
    [] kind = "schemas" -> SchemaCache_GetSchemas(b, Cat)
    [] kind = "tables" -> SchemaCache_GetTables(b, Cat, Sch)
    [] kind = "columns" -> SchemaCache_GetColumns(b, Cat, Sch, Tbl)

\* SchemaCache.Update
Update(b, duration) == [b EXCEPT !.data = "tree", !.expiry = b.now + duration]

\* LoadCatalogs, LoadSchemas, LoadTables, LoadColumns: what each adds to
\* b.tree from the rows Trino returned.
Loaded(tree, kind) ==
  CASE kind = "catalogs" -> [tree EXCEPT !.Catalogs = @ \cup {Cat}]
    [] kind = "schemas" ->
         [tree EXCEPT !.Schemas =
            MapSet(@, Cat, (IF Cat \in DOMAIN @ THEN @[Cat] ELSE {}) \cup {Sch})]
    [] kind = "tables" ->
         [tree EXCEPT !.Tables =
            MapSet(@, <<Cat, Sch>>,
                   (IF <<Cat, Sch>> \in DOMAIN @ THEN @[<<Cat, Sch>>] ELSE {})
                     \cup {Tbl})]
    [] kind = "columns" ->
         [tree EXCEPT !.Columns = MapSet(@, <<Cat, Sch, Tbl>>, <<Col>>)]


\* The getters of the cache.
ReadOps ==
  {"Get", "HasCatalog", "HasSchema", "HasTable",
   "GetCatalogs", "GetSchemas", "GetTables", "GetColumns"}

\* The getter that returns the list of a kind.
GetterOf(kind) ==
  CASE kind = "catalogs" -> "GetCatalogs"
    [] kind = "schemas" -> "GetSchemas"
    [] kind = "tables" -> "GetTables"
    [] kind = "columns" -> "GetColumns"

\* What a getter answers, asked for the names Trino holds. A Has... that
\* returns false is written as Nil, one that returns true as NotNil(TRUE).
Answer(b, op) ==
  CASE op = "Get" -> Get(b)
    [] op = "HasCatalog" -> IF HasCatalog(b, Cat) THEN NotNil(TRUE) ELSE Nil
    [] op = "HasSchema" -> IF HasSchema(b, Cat, Sch) THEN NotNil(TRUE) ELSE Nil
    [] op = "HasTable" -> IF HasTable(b, Cat, Sch, Tbl) THEN NotNil(TRUE) ELSE Nil
    [] op = "GetCatalogs" -> GetCatalogs(b)
    [] op = "GetSchemas" -> SchemaCache_GetSchemas(b, Cat)
    [] op = "GetTables" -> SchemaCache_GetTables(b, Cat, Sch)
    [] op = "GetColumns" -> SchemaCache_GetColumns(b, Cat, Sch, Tbl)

\* The map of sc.Data a getter reads once its test of the expiry has passed;
\* "none" when it returns before reading one. Get reads no map: it returns
\* sc.Data itself.
MapRead(b, op) ==
  CASE op = "Get" -> "none"
    [] op = "HasCatalog" -> IF Before_Expiry(b) THEN "Catalogs" ELSE "none"
    [] op = "HasSchema" -> IF Before_Expiry(b) THEN "Schemas" ELSE "none"
    [] op = "HasTable" -> IF Before_Expiry(b) THEN "Tables" ELSE "none"
    [] op = "GetCatalogs" -> IF After_Expiry(b) THEN "none" ELSE "Catalogs"
    [] op = "GetSchemas" -> IF After_Expiry(b) THEN "none" ELSE "Schemas"
    [] op = "GetTables" -> IF After_Expiry(b) THEN "none" ELSE "Tables"
    [] op = "GetColumns" -> IF After_Expiry(b) THEN "none" ELSE "Columns"

\* The map of b.tree a Load writes.
MapWritten(kind) ==
  CASE kind = "catalogs" -> "Catalogs"
    [] kind = "schemas" -> "Schemas"
    [] kind = "tables" -> "Tables"
    [] kind = "columns" -> "Columns"

\* A getter is reading, under sc.mu, the map a Load is writing, under
\* b.tree.mu: sc.Data is b.tree, and the two mutexes are different ones.
Racing(b) ==
  /\ b.rpc = "reading"
  /\ b.lpc = "writing"
  /\ b.data = "tree"
  /\ MapRead(b, b.rop) = MapWritten(b.lkind)

\* No getter has answered since the last step of another kind.
NoRead == [op |-> "none", ans |-> Nil, at |-> 0, racing |-> FALSE]

\* NewBrowser: a tree of its own and NewSchemaCache, whose Data is another
\* new tree and whose Expiry is the time of its making.
NewBrowser ==
  [made |-> TRUE,
   tree |-> NewSchemaTree,                \* b.tree
   data |-> "own",                        \* sc.Data: its own tree, or b.tree
   expiry |-> 0,                          \* sc.Expiry
   now |-> 1,                             \* the clock: the first call comes later
   updated |-> FALSE,                     \* Update has been called
   fetched |-> [k \in Kinds |-> -1],      \* when each list was read from Trino
   scMu |-> FreeLock,                     \* SchemaCache.mu
   treeMu |-> FreeLock,                   \* SchemaTree.mu of b.tree
   lpc |-> "idle", lkind |-> "catalogs",  \* the goroutine running a Load
   rpc |-> "idle", rop |-> "Get",         \* the UI goroutine in a getter
   pending |-> Nil,                       \* what the getter has read so far
   loads |-> 0,
   read |-> NoRead,                       \* history: the last answer
   fatal |-> FALSE]                       \* the runtime has stopped the program

BrowseFrame ==
  UNCHANGED <<envVars, cacheVars, siVars, procVars, histVars, budgetVars, svcVars,
              unitVars, closeVars, complVars, access, search, handler>>

\* A minute passes: while the program waits for the user or for Trino, not in
\* the middle of a getter or of a Load's writes.
BrowseTick ==
  /\ ~browse.fatal
  /\ browse.now < MaxTime
  /\ browse.rpc = "idle"
  /\ browse.lpc \in {"idle", "querying"}
  /\ browse' = [browse EXCEPT !.now = @ + 1, !.read = NoRead]
  /\ BrowseFrame

\* The list a node is made from: a Load is started from a node of the tree,
\* which the Load of the kind above has added.
Above(kind) ==
  CASE kind = "catalogs" -> "catalogs"
    [] kind = "schemas" -> "catalogs"
    [] kind = "tables" -> "schemas"
    [] kind = "columns" -> "tables"

\* A Load begins: it asks the cache's getter; an answer that is not nil is
\* shown and the Load returns, else Trino is asked.
L_Start(kind) ==
  /\ ~browse.fatal
  /\ kind = "catalogs" \/ browse.fetched[Above(kind)] >= 0
  /\ browse.lpc = "idle"
  /\ browse.rpc = "idle"
  /\ browse.loads < MaxLoads
  /\ CanRLock(browse.scMu)
  /\ \E ans \in {Cached(browse, kind)} :
       browse' = [browse EXCEPT
                    !.loads = @ + 1,
                    !.lkind = kind,
                    !.lpc = IF ans.nil THEN "querying" ELSE "idle",
                    !.read = IF ans.nil THEN NoRead
                             ELSE [op |-> GetterOf(kind), ans |-> ans,
                                   at |-> browse.now, racing |-> FALSE]]
  /\ BrowseFrame

\* The Load's query: Trino returns the rows, or the query fails and the Load
\* returns the error.
L_Query(ok) ==
  /\ ~browse.fatal
  /\ browse.lpc = "querying"
  /\ browse' = [browse EXCEPT
                  !.lpc = IF ok THEN "fetched" ELSE "idle",
                  !.fetched[browse.lkind] = IF ok THEN browse.now ELSE @,
                  !.read = NoRead]
  /\ BrowseFrame

\* The Load: b.tree.mu.Lock(), and the writes to the tree's maps begin.
L_WriteBegin ==
  /\ ~browse.fatal
  /\ browse.lpc = "fetched"
  /\ CanLock(browse.treeMu)
  /\ browse' = [browse EXCEPT !.lpc = "writing", !.treeMu.writer = "loader",
                              !.read = NoRead]
  /\ BrowseFrame

\* The Load: the rows are in the tree; b.tree.mu.Unlock().
L_WriteEnd ==
  /\ ~browse.fatal
  /\ browse.lpc = "writing"
  /\ browse' = [browse EXCEPT !.lpc = "written", !.treeMu.writer = "none",
                              !.tree = Loaded(@, browse.lkind),
                              !.read = NoRead]
  /\ BrowseFrame

\* The Load: b.cache.Update(b.tree, 5*time.Minute), under sc.mu.
L_Update ==
  /\ ~browse.fatal
  /\ browse.lpc = "written"
  /\ CanLock(browse.scMu)
  /\ browse' = [Update(browse, Ttl) EXCEPT !.lpc = "idle", !.updated = TRUE,
                                           !.read = NoRead]
  /\ BrowseFrame

\* A getter begins: sc.mu.RLock(), the test of the expiry, and the reading
\* of sc.Data's maps starts. Reading a map that the Load is writing is a data
\* race: the runtime may stop the program.
R_Begin(op) ==
  /\ ~browse.fatal
  /\ browse.rpc = "idle"
  /\ CanRLock(browse.scMu)
  /\ \E fatal \in {FALSE, Racing([browse EXCEPT !.rpc = "reading", !.rop = op])} :
       browse' = [browse EXCEPT !.rpc = "reading", !.rop = op,
                                !.scMu.readers = @ \cup {"reader"},
                                !.pending = Answer(browse, op),
                                !.fatal = fatal,
                                !.read = NoRead]
  /\ BrowseFrame

\* The getter returns: what it read when it began or, if the Load wrote the
\* tree meanwhile, what the tree holds now; the deferred sc.mu.RUnlock().
R_End ==
  /\ ~browse.fatal
  /\ browse.rpc = "reading"
  /\ \E ans \in {browse.pending, Answer(browse, browse.rop)} :
     \E fatal \in {FALSE, Racing(browse)} :
       browse' = [browse EXCEPT !.rpc = "idle",
                                !.scMu.readers = @ \ {"reader"},
                                !.pending = Nil,
                                !.fatal = fatal,
                                !.read = [op |-> browse.rop, ans |-> ans,
                                          at |-> browse.now,
                                          racing |-> Racing(browse)]]
  /\ BrowseFrame

BrowseInit ==
  /\ InitBase
  /\ access = NoAccess
  /\ browse = NewBrowser
  /\ search = NoSearch
  /\ handler = NoHandler
  /\ refreshesLeft = 0
  /\ faultsLeft = 0
  /\ live = SmallLive
  /\ cacheDb = EmptyDb
  /\ cacheTrie = NewTrie
  /\ cacheLastRefresh = 0
  /\ keywordTrie = NewTrie
  /\ svcStart = "none"
  /\ NoUnit

BrowseNext ==
  \/ BrowseTick
  \/ \E kind \in Kinds : L_Start(kind)
  \/ \E ok \in BOOLEAN : L_Query(ok)
  \/ L_WriteBegin
  \/ L_WriteEnd
  \/ L_Update
  \/ \E op \in ReadOps : R_Begin(op)
  \/ R_End

BrowseSpec == BrowseInit /\ [][BrowseNext]_vars

\* C32: no reader of Get, GetSchemas, GetTables or GetColumns is reading a
\* structure of the cache while a Load is writing that same structure.
C32_NoReaderInWrittenStructure ==
  browse.rop \in {"Get", "GetSchemas", "GetTables", "GetColumns"} => ~Racing(browse)

\* What a getter answers from the tree when the cache is taken as valid.
FromTree(b, op) == Answer([b EXCEPT !.expiry = b.now + 1], op)

\* C33: a getter of a new cache reports nothing; after Update(tree, d) a
\* getter asked before d has elapsed answers from the tree, and one asked
\* once d has elapsed reports nothing (nil or false). The answers that raced
\* with a Load's writes are left out.
C33_ServesOnlyWhileValid ==
  (browse.read.op \in ReadOps /\ ~browse.read.racing) =>
    IF browse.updated /\ browse.read.at < browse.expiry
      THEN browse.read.ans = FromTree(browse, browse.read.op)
      ELSE browse.read.ans.nil

\* C34: a catalog, schema, table or column list that was fetched from Trino
\* is not answered from the cache more than 5 minutes after it was fetched.
C34_NoListOlderThanTtl ==
  \A kind \in Kinds :
    (/\ browse.read.op = GetterOf(kind)
     /\ ~browse.read.ans.nil
     /\ browse.fetched[kind] >= 0)
      => browse.read.at - browse.fetched[kind] <= Ttl

\* ------------------------------------------------- FuzzySearch (schema)

\* The longest list searched.
MaxItems == 3

\* strings.Index
Index(s, substr) ==
  IF IndexesOf(s, substr) = {} THEN -1
  ELSE CHOOSE i \in IndexesOf(s, substr) : \A j \in IndexesOf(s, substr) : i <= j

\* The subsequence loop of FuzzySearch from the k-th character of the input:
\* the last position matched, or -2 when a character is not found.
RECURSIVE SubsequenceFrom(_, _, _, _)
SubsequenceFrom(lowerInput, lowerItem, k, lastPos) ==
  IF k > Len(lowerInput) THEN lastPos
  ELSE LET pos == Index(Slice(lowerItem, lastPos + 1, Len(lowerItem)),
                        <<lowerInput[k]>>)
       IN IF pos = -1 THEN -2
          ELSE SubsequenceFrom(lowerInput, lowerItem, k + 1, lastPos + pos + 1)

\* The score FuzzySearch gives an item (the lower the better): 0 exact,
\* 1 prefix, 100 + position substring, 1000 + last position subsequence;
\* -1 for an item that is not appended to scored.
ItemScore(lowerInput, lowerItem) ==
  IF lowerItem = lowerInput THEN 0
  ELSE IF HasPrefix(lowerItem, lowerInput) THEN 1
  ELSE IF Contains(lowerItem, lowerInput) THEN 100 + Index(lowerItem, lowerInput)
  ELSE IF SubsequenceFrom(lowerInput, lowerItem, 1, -1) = -2 THEN -1
  ELSE 1000 + SubsequenceFrom(lowerInput, lowerItem, 1, -1)

\* The scored slice: index and score of the items that match, in the order
\* of items.
RECURSIVE ScoredFrom(_, _, _)
ScoredFrom(lowerInput, items, i) ==
  IF i > Len(items) THEN <<>>
  ELSE (IF ItemScore(lowerInput, ToLower(items[i])) = -1 THEN <<>>
        ELSE <<[index |-> i, score |-> ItemScore(lowerInput, ToLower(items[i]))]>>)
       \o ScoredFrom(lowerInput, items, i + 1)

\* sort.Slice by "scored[i].score < scored[j].score": on a slice of at most
\* 12 elements sort.Slice is an insertion sort, which moves an element left
\* only past the elements that are greater.
RECURSIVE SortScored(_, _)
SortScored(sorted, rest) ==
  IF rest = <<>> THEN sorted
  ELSE LET x == Head(rest)
           k == Cardinality({i \in 1..Len(sorted) : ~(x.score < sorted[i].score)})
       IN SortScored(SubSeq(sorted, 1, k) \o <<x>> \o SubSeq(sorted, k + 1, Len(sorted)),
                     Tail(rest))

FuzzySearch(input, items) ==
  IF input = <<>> THEN items
  ELSE LET scored == SortScored(<<>>, ScoredFrom(ToLower(input), items, 1))
       IN [i \in 1..Len(scored) |-> items[scored[i].index]]

\* The words searched and the words typed.
SearchItems ==
  {<<"a","b">>, <<"A","b","x">>, <<"x","a","b">>, <<"x","x","a","b">>,
   <<"a","x","b">>, <<"x","a","x","b">>, <<"b","a">>}
SearchInputs == {<<>>, <<"a","b">>, <<"A","B">>, <<"b">>}

SearchFrame ==
  UNCHANGED <<envVars, cacheVars, siVars, procVars, histVars, budgetVars, svcVars,
              unitVars, closeVars, complVars, access, browse, handler>>

\* The search field's changed func calls FuzzySearch(text, names).
CallFuzzySearch ==
  /\ search.result = <<"none">>
  /\ search' = [search EXCEPT !.asked = TRUE,
                              !.result = FuzzySearch(search.input, search.items)]
  /\ SearchFrame

\* The user empties the field and the list is shown as it was.
ClearSearch ==
  /\ search.asked
  /\ search.input # <<>>
  /\ search' = [search EXCEPT !.input = <<>>,
                              !.result = FuzzySearch(<<>>, search.items)]
  /\ SearchFrame

SearchInit ==
  /\ InitBase
  /\ access = NoAccess
  /\ browse = NoBrowse
  /\ handler = NoHandler
  /\ \E n \in 0..MaxItems : \E items \in [1..n -> SearchItems] :
     \E input \in SearchInputs :
       search = [asked |-> FALSE, input |-> input, items |-> items,
                 result |-> <<"none">>]
  /\ refreshesLeft = 0
  /\ faultsLeft = 0
  /\ live = SmallLive
  /\ cacheDb = EmptyDb
  /\ cacheTrie = NewTrie
  /\ cacheLastRefresh = 0
  /\ keywordTrie = NewTrie
  /\ svcStart = "none"
  /\ NoUnit

SearchNext ==
  \/ CallFuzzySearch
  \/ ClearSearch

SearchSpec == SearchInit /\ [][SearchNext]_vars

\* The items that match the input in one way, case-insensitively, and in no
\* better way: 0 equal, 1 prefix, 2 substring, 3 in-order subsequence.
RankOf(input, item) ==
  IF ToLower(item) = ToLower(input) THEN 0
  ELSE IF StartsWith(ToLower(item), ToLower(input)) THEN 1
  ELSE IF Contains(ToLower(item), ToLower(input)) THEN 2
  ELSE IF fuzzyMatch(ToLower(input), ToLower(item)) THEN 3
  ELSE 4

OfRank(input, items, r) ==
  LET Test(item) == RankOf(input, item) = r IN SelectSeq(items, Test)

\* C35: with an empty input FuzzySearch returns the items unchanged;
\* otherwise it returns exactly the items that match, the equal ones first,
\* then the prefix, the substring and the subsequence matches, each group in
\* the order of the items.
C35_FuzzySearchRanks ==
  search.asked =>
    search.result =
      IF search.input = <<>> THEN search.items
      ELSE OfRank(search.input, search.items, 0)
           \o OfRank(search.input, search.items, 1)
           \o OfRank(search.input, search.items, 2)
           \o OfRank(search.input, search.items, 3)

\* The rank the claim gives a word: baseScore - 10 * d, d the edit distance
\* of the word to the lower-cased query.
RankByDistance(w) == trie[w] - 10 * EditDistance(w, ToLower(call.prefix))

\* C36: GetFuzzyMatches has one list it can return for a given trie and
\* query, whatever the order in which the children are visited, and the words
\* of the list are in the descending order of baseScore - 10 * d, d the edit
\* distance of the word to the query.
C36_RankedByEditDistance ==
  call.asked = "GetFuzzyMatches" =>
    /\ Cardinality(call.out) = 1
    /\ \A r \in call.out : \A i, j \in 1..Len(r) :
         i < j => RankByDistance(r[i]) >= RankByDistance(r[j])

\* C37: when a refresh has stored a schema, the cache lists every table the
\* live schema has; in particular the schema is not listed with no table
\* unless the live schema has none, also when the column listing of some of
\* its tables failed.
C37_StoredWithAllTables ==
  [][(storeLog' # storeLog /\ ~storeLog'.err) =>
       /\ storeLog'.name \in GetSchemas(cacheDb')
       /\ SeqToSet(ListTables(storeLog'.name)) \subseteq GetTables(cacheDb', storeLog'.name)
       /\ GetTables(cacheDb', storeLog'.name) = {}
            => ListTables(storeLog'.name) = <<>>]_vars

\* C38: after a StoreSchema call that failed, the cache's suggestion index
\* holds the words and the scores it held before the call.
C38_IndexUnchangedOnFailure ==
  [][(storeLog' # storeLog /\ storeLog'.err) => cacheTrie' = cacheTrie]_vars

\* ------------------------------------ AutocompleteHandler (autocomplete)

\* The changes of the text the user makes and the suggestions the user
\* accepts in a run.
MaxTyped == 2
MaxAccepts == 1
Jobs == 1..(MaxTyped + MaxAccepts)

\* What the user types in the input field.
HandlerTexts == {<<"s">>, <<"f">>, <<"s", "e">>}

\* No goroutine of Update.
NoJob == [pc |-> "none", text |-> <<>>, list |-> <<>>]

\* NewAutocompleteHandler: no suggestion, the box hidden and empty.
NewHandler ==
  [made |-> TRUE,
   text |-> <<>>,                    \* inputField's text
   typed |-> 0,
   accepts |-> 0,
   started |-> 0,                    \* the goroutines Update has started
   jobs |-> [j \in Jobs |-> NoJob],
   suggestions |-> <<>>,             \* ah.suggestions
   storedBy |-> 0,                   \* history: the goroutine that stored it
   suggestionVisible |-> FALSE,
   suggestionText |-> <<>>,
   box |-> <<>>,                     \* the items of suggestionBox
   boost |-> <<>>,                   \* "go ah.service.BoostSuggestion(...)"
   accepted |-> [index |-> -1, shown |-> <<>>, applied |-> <<>>, found |-> FALSE]]

HandlerFrame ==
  UNCHANGED <<envVars, siVars, procVars, histVars, budgetVars, svcStart, unitVars,
              closeVars, cacheDb, cacheLastRefresh, maxSuggestions, compl,
              access, browse, search>>

\* Update(text, cursorPos): "go func() { ... }()", one more goroutine.
StartJob(h, text) ==
  [h EXCEPT !.started = @ + 1,
            !.jobs[h.started + 1] = [pc |-> "computing", text |-> text, list |-> <<>>]]

\* updateSuggestionBox: the box is cleared and filled from the first ten of
\* ah.suggestions, an item for each one whose Type the switch knows.
updateSuggestionBox(suggestions) ==
  LET Known(sg) == sg.Type \in SQLCompletionTypes
      first == SubSeq(suggestions, 1, IF Len(suggestions) < 10 THEN Len(suggestions) ELSE 10)
      items == SelectSeq(first, Known)
  IN [k \in 1..Len(items) |-> items[k].Text]

\* The user changes the text (the box is hidden, the input field has the
\* focus): the changed func calls handler.Update(text, len(text)).
H_Type(text) ==
  /\ handler.typed < MaxTyped
  /\ ~handler.suggestionVisible
  /\ text # handler.text
  /\ handler' = [StartJob(handler, text) EXCEPT !.text = text, !.typed = @ + 1]
  /\ UNCHANGED <<keywordTrie, cacheTrie>>
  /\ HandlerFrame

\* Update's goroutine: ah.service.GetCompletions(text, cursorPos); on an
\* error it logs and returns.
H_Compute(j) ==
  /\ handler.jobs[j].pc = "computing"
  /\ \E r \in GetCompletions(handler.jobs[j].text, Len(handler.jobs[j].text)) :
       handler' = [handler EXCEPT !.jobs[j].pc = IF r.failed THEN "done" ELSE "computed",
                                  !.jobs[j].list = r.list]
  /\ UNCHANGED <<keywordTrie, cacheTrie>>
  /\ HandlerFrame

\* Update's goroutine: under suggestionsMutex, ah.suggestions = suggestions;
\* then, if the box is visible, the redraw is queued for the UI goroutine.
H_Store(j) ==
  /\ handler.jobs[j].pc = "computed"
  /\ handler' = [handler EXCEPT
                   !.suggestions = handler.jobs[j].list,
                   !.storedBy = j,
                   !.jobs[j].pc = IF handler.suggestionVisible THEN "queued" ELSE "done"]
  /\ UNCHANGED <<keywordTrie, cacheTrie>>
  /\ HandlerFrame

\* The UI goroutine runs the queued func: updateSuggestionBox().
H_Redraw(j) ==
  /\ handler.jobs[j].pc = "queued"
  /\ handler' = [handler EXCEPT !.jobs[j].pc = "done",
                                !.box = updateSuggestionBox(handler.suggestions)]
  /\ UNCHANGED <<keywordTrie, cacheTrie>>
  /\ HandlerFrame

\* ProcessKey, Tab or Ctrl-Space with the box hidden: ShowSuggestions.
ShowSuggestions ==
  /\ ~handler.suggestionVisible
  /\ handler.accepts < MaxAccepts
  /\ handler' =
       [handler EXCEPT
          !.suggestionText = getWordAtCursor(handler.text, Len(handler.text)).word,
          !.box = updateSuggestionBox(handler.suggestions),
          !.suggestionVisible = Len(updateSuggestionBox(handler.suggestions)) > 0]
  /\ UNCHANGED <<keywordTrie, cacheTrie>>
  /\ HandlerFrame

\* acceptSuggestion: what is added after the suggestion's text.
Spacing(text, wordStart, type) ==
  CASE type = "SchemaName" -> <<".">>
    [] type = "TableName" ->
         IF Contains(ToUpper(Slice(text, 0, wordStart)), KwFrom) THEN <<" ">> ELSE <<>>
    [] type = "ColumnName" ->
         IF /\ Contains(ToUpper(Slice(text, 0, wordStart)), KwSelect)
            /\ ~Contains(ToUpper(Slice(text, wordStart, Len(text))), KwFrom)
         THEN <<",", " ">> ELSE <<>>
    [] type = "Keyword" -> <<" ">>
    [] OTHER -> <<>>

\* acceptSuggestion: the new text of the input field.
NewText(text, suggestionText, suggestion) ==
  LET wordStart == getWordAtCursor(text, Len(text)).start
  IN Slice(text, 0, wordStart) \o suggestion.Text
     \o Spacing(text, wordStart, suggestion.Type)
     \o (IF wordStart + Len(suggestionText) < Len(text)
         THEN Slice(text, wordStart + Len(suggestionText), Len(text)) ELSE <<>>)

\* ProcessKey, Enter or Tab with the box visible and not empty:
\* acceptSuggestion(suggestionBox.GetCurrentItem()). It reads ah.suggestions
\* as it is now; SetText calls the changed func, which calls Update.
H_Accept(index) ==
  /\ handler.suggestionVisible
  /\ handler.accepts < MaxAccepts
  /\ index \in 0..(Len(handler.box) - 1)
  /\ IF index >= Len(handler.suggestions)
     THEN handler' = [handler EXCEPT
                        !.accepts = @ + 1,
                        !.accepted = [index |-> index, shown |-> handler.box[index + 1],
                                      applied |-> <<>>, found |-> FALSE]]
     ELSE \E suggestion \in {handler.suggestions[index + 1]} :
          \E newText \in {NewText(handler.text, handler.suggestionText, suggestion)} :
            handler' = [StartJob(handler, newText) EXCEPT
                          !.accepts = @ + 1,
                          !.boost = <<suggestion>>,
                          !.text = newText,
                          !.suggestionVisible = FALSE,
                          !.accepted = [index |-> index, shown |-> handler.box[index + 1],
                                        applied |-> suggestion.Text, found |-> TRUE]]
  /\ UNCHANGED <<keywordTrie, cacheTrie>>
  /\ HandlerFrame

\* The goroutine acceptSuggestion started: ah.service.BoostSuggestion.
H_Boost ==
  /\ handler.boost # <<>>
  /\ \E r \in {BoostSuggestion(keywordTrie, cacheTrie, handler.boost[1].Text,
                                handler.boost[1].Type)} :
       /\ keywordTrie' = r.keywordTrie
       /\ cacheTrie' = r.cacheTrie
  /\ handler' = [handler EXCEPT !.boost = <<>>]
  /\ HandlerFrame

\* ProcessKey, Escape with the box visible: HideSuggestions.
HideSuggestions ==
  /\ handler.suggestionVisible
  /\ handler' = [handler EXCEPT !.suggestionVisible = FALSE]
  /\ UNCHANGED <<keywordTrie, cacheTrie>>
  /\ HandlerFrame

HandlerInit ==
  /\ InitBase
  /\ access = NoAccess
  /\ browse = NoBrowse
  /\ search = NoSearch
  /\ handler = NewHandler
  /\ refreshesLeft = 0
  /\ faultsLeft = 0
  /\ live = SmallLive
  /\ cacheDb = EmptyDb
  /\ cacheTrie = NewTrie
  /\ cacheLastRefresh = 0
  /\ keywordTrie = InsertAll(NewTrie, [i \in 1..Len(CommonSQLKeywords) |->
                                         <<CommonSQLKeywords[i], 1>>])
  /\ svcStart = "ok"
  /\ NoUnit

HandlerNext ==
  \/ \E text \in HandlerTexts : H_Type(text)
  \/ \E j \in Jobs : H_Compute(j)
  \/ \E j \in Jobs : H_Store(j)
  \/ \E j \in Jobs : H_Redraw(j)
  \/ ShowSuggestions
  \/ \E index \in 0..9 : H_Accept(index)
  \/ H_Boost
  \/ HideSuggestions

HandlerSpec == HandlerInit /\ [][HandlerNext]_vars

\* Every goroutine of Update has finished.
AllStored == \A j \in Jobs : handler.jobs[j].pc \in {"none", "done"}

\* C39: when Update was called for a text and then for another and both
\* goroutines have finished, the suggestions kept are those computed by the
\* call made last; and the suggestion acceptSuggestion(i) applies is the
\* item the box showed at index i.
C39_LatestTextAndShownItem ==
  /\ (handler.started >= 2 /\ AllStored) => handler.storedBy = handler.started
  /\ handler.accepted.index >= 0 =>
       /\ handler.accepted.found
       /\ handler.accepted.applied = handler.accepted.shown

====
